---- MODULE Spec2Model ----
(***************************************************************************)
(* Gravity Wars: the client simulation (src/app/page.tsx, GravityWarsGame) *)
(* and the broadcast server (src/app/page.tsx, GameServer).                *)
(*                                                                         *)
(* JavaScript numbers are modelled in fixed point:                         *)
(*   positions, velocities, radii   in 1/PosScale                          *)
(*   masses                         in 1/MassScale                         *)
(*   energies                       in 1/EnergyScale                       *)
(*   absorptionProgress             in 1/ProgScale                         *)
(* Products and quotients round toward zero (Quot); Math.sqrt is the       *)
(* integer square root.  A comparison d < r of a square root d with an     *)
(* integer r is exact under this rounding.                                 *)
(***************************************************************************)
EXTENDS Integers, Sequences, FiniteSets, TLC

VARIABLES
  gameObjects,      \* gameObjectsRef.current: the client's body list
  wormholes,        \* wormholesRef.current: [id, x, y] of the wormholes created
  playerRef,        \* playerRef.current when it is not the list's own object (else NullBody)
  playerAliased,    \* TRUE: playerRef.current is the list's body with id "player"
  keys,             \* keysRef.current: the set of keys held down
  gravityPullActive,\* gravityPullActiveRef.current
  spaceActivities,  \* spaceActivitiesRef.current
  cosmicEvents,     \* cosmicEventsRef.current
  spawned,          \* how many meteors and asteroids updateCosmicEvents has pushed
  score,            \* React state score
  gameState,        \* "menu" | "playing" | "gameOver"
  frameCount,       \* frameCountRef.current
  pc,               \* position of the running gameLoop callback ("idle": none)
  idx,              \* index of the body the forEach of gameLoop is at
  pairI, pairJ,     \* indices i, j of handleCollisions' nested loops
  toRemove,         \* handleCollisions' toRemove (a list of ids)
  scoreIncrease,    \* handleCollisions' scoreIncrease
  pre,              \* history: the body list when the collision pass started
  contacts,         \* history: the index pairs the collision pass found in contact
  last,             \* history: the operation the last step performed
  activeDirections, \* MobileControls' activeDirections.current
  touches,          \* how many touches of a direction button have started
  isPaused,         \* React state isPaused
  rafQueue,         \* the gameLoop callbacks pending in the animation-frame queue, oldest
                    \* first; TRUE marks the request whose id animationRef.current holds
  effectDeps,       \* [gameState, isPaused] as the game loop effect last ran with them
  otherPlayers,     \* React state otherPlayers
  wsOpen,           \* wsRef.current.readyState === WebSocket.OPEN
  wsPending,        \* what the client's connection waits for: a socket that is
                    \* connecting, or the timeout that will call connectWebSocket
  toServer,         \* messages sent by the client, not yet received by the server
  toClient,         \* messages sent by the server, not yet received by the client
  srvPlayers,       \* GameServer.players: the player ids, in insertion order
  srvObjects,       \* GameServer.gameObjects
  srvTicks,         \* number of GameServer.gameLoop runs so far
  srvOwners,        \* for each entry of GameServer.gameObjects, the key in players of the
                    \* Player whose gameState is that object
  srvOpen,          \* the connections whose ws.readyState is OPEN, by number
  srvSent           \* for each connection, the messages the server has sent on it

\* ---------------------------------------------------------------- numbers

PosScale    == 10 * 10
MassScale   == 100 * 100
EnergyScale == 1000 * 100
ProgScale   == 10 * 100

Abs(a) == IF a < 0 THEN -a ELSE a
Max(a, b) == IF a >= b THEN a ELSE b
Min(a, b) == IF a <= b THEN a ELSE b

\* a / b rounded toward zero (b > 0)
Quot(a, b) == IF a >= 0 THEN a \div b ELSE -((-a) \div b)

RECURSIVE SqrtSearch(_, _, _)
SqrtSearch(n, lo, hi) ==
  IF lo >= hi THEN lo
  ELSE LET mid == (lo + hi + 1) \div 2
       IN IF mid * mid <= n THEN SqrtSearch(n, mid, hi)
                            ELSE SqrtSearch(n, lo, mid - 1)

\* Math.sqrt: the largest r with r * r <= n
Sqrt(n) == SqrtSearch(n, 0, 46340)

\* Math.sqrt rounded up: the divisor of a normalisation, so that the fixed-point
\* quotient is never larger in magnitude than the real one
SqrtUp(n) == LET r == Sqrt(n) IN IF r * r = n THEN r ELSE r + 1

\* x * 0.016, the frame time the code multiplies rates by
PerFrame(x) == Quot(x * 16, 1000)

\* ---------------------------------------------------------------- constants

GRAVITY_CONSTANT      == 15   \* 1.5, in tenths
MAX_VELOCITY          == 4 * PosScale
ENERGY_DECAY_RATE     == 8 * (EnergyScale \div 100)
GRAVITY_PULL_COST     == 3 * EnergyScale
CHARGING_RADIUS       == 400 * PosScale
GRAVITY_PULL_RADIUS   == 250 * PosScale
GRAVITY_PULL_STRENGTH == 3    \* 0.3, in tenths
ORBITAL_ABSORPTION_RATE == ProgScale \div 1000
AI_GROWTH_RATE        == 2 * (MassScale \div 10000)
AI_MAX_MASS           == 40 * MassScale
PLAYER_START_MASS     == 8 * MassScale
PLAYER_START_ENERGY   == 80 * EnergyScale
PLAYER_MAX_ENERGY     == 120 * EnergyScale
ENERGY_ABSORPTION_RATE == 5   \* 0.5, in tenths
MASS_ABSORPTION_RATE  == 8    \* 0.8, in tenths

\* ---------------------------------------------------------------- bodies

GlowingTypes == {"blackhole", "star", "pulsar", "whitedwarf", "wormhole", "spacestation"}

\* calculateRadius(mass, type)
calculateRadius(mass, type) ==
  LET baseRadius == Quot(Sqrt(mass) * 12, 10)
  IN CASE type \in {"player", "ai"}       -> Max(6 * PosScale, baseRadius)
       [] type \in {"debris", "asteroid"} -> Max(2 * PosScale, Quot(baseRadius * 8, 10))
       [] type = "planet"                 -> Max(12 * PosScale, Quot(baseRadius * 11, 10))
       [] type = "star"                   -> Max(18 * PosScale, Quot(baseRadius * 13, 10))
       [] type = "blackhole"              -> Max(20 * PosScale, Quot(baseRadius * 14, 10))
       [] type = "whitedwarf"             -> Max(10 * PosScale, Quot(baseRadius * 9, 10))
       [] type = "wormhole"               -> Max(12 * PosScale, baseRadius)
       [] type = "pulsar"                 -> Max(15 * PosScale, Quot(baseRadius * 11, 10))
       [] type = "neutronstar"            -> Max(8 * PosScale, Quot(baseRadius * 7, 10))
       [] type = "comet"                  -> Max(4 * PosScale, Quot(baseRadius * 9, 10))
       [] type = "spacestation"           -> Max(8 * PosScale, Quot(baseRadius * 10, 10))
       [] OTHER                           -> baseRadius

\* A GameObject.  hasEnergy is FALSE where the code leaves energy and maxEnergy
\* undefined; an absent absorptionProgress reads as 0, as (x || 0) does.
Body(id, type, x, y, vx, vy, mass, radius, hasEnergy, energy, maxEnergy, isGlowing, chargingRate) ==
  [id |-> id, type |-> type, x |-> x, y |-> y, vx |-> vx, vy |-> vy,
   mass |-> mass, radius |-> radius,
   hasEnergy |-> hasEnergy, energy |-> energy, maxEnergy |-> maxEnergy,
   isGlowing |-> isGlowing, chargingRate |-> chargingRate,
   absorptionProgress |-> 0, aiState |-> "none"]

\* generateObjectsAroundPlayer: the landmark branches (isGlowing, vx = vy = 0)
ChargingRateOf(type) ==
  CASE type = "blackhole" -> 12 [] type = "star" -> 8 [] type = "pulsar" -> 10
    [] type = "whitedwarf" -> 9 [] type = "wormhole" -> 6 [] type = "spacestation" -> 5
    [] OTHER -> 0

NewGlowing(id, type, x, y, mass) ==
  Body(id, type, x, y, 0, 0, mass, calculateRadius(mass, type),
       FALSE, 0, 0, TRUE, ChargingRateOf(type))

\* generateObjectsAroundPlayer: planet, comet, asteroid, debris; updateCosmicEvents:
\* meteor (type debris) and asteroid
NewInert(id, type, x, y, vx, vy, mass) ==
  Body(id, type, x, y, vx, vy, mass, calculateRadius(mass, type),
       FALSE, 0, 0, FALSE, 0)

\* generateAIPlayers
NewAI(id, x, y, vx, vy, mass, energy) ==
  [Body(id, "ai", x, y, vx, vy, mass, calculateRadius(mass, "ai"),
        TRUE, energy, 100 * EnergyScale, FALSE, 0)
   EXCEPT !.aiState = "exploring"]

\* initGame: newPlayer
NewPlayer ==
  Body("player", "player", 0, 0, 0, 0, PLAYER_START_MASS,
       calculateRadius(PLAYER_START_MASS, "player"),
       TRUE, PLAYER_START_ENERGY, PLAYER_MAX_ENERGY, FALSE, 0)

\* ---------------------------------------------------------------- lists

Indices(s) == 1..Len(s)

\* toRemove.includes(id)
Includes(s, e) == \E k \in Indices(s) : s[k] = e

\* objects.find(obj => obj.id === "player"): the index of the first such body, 0 if none
FindPlayer(objs) ==
  IF \E k \in Indices(objs) : objs[k].id = "player"
  THEN CHOOSE k \in Indices(objs) :
         /\ objs[k].id = "player"
         /\ \A m \in 1..(k - 1) : objs[m].id # "player"
  ELSE 0

\* dx * dx + dy * dy.  Beyond 400 units on an axis, or past the largest integer, the
\* value is Far: farther than every radius the code compares a distance with.
Far == 2147483647
FarAxis == 400 * PosScale
Norm2(dx, dy) ==
  IF Abs(dx) >= FarAxis \/ Abs(dy) >= FarAxis THEN Far
  ELSE IF dx * dx > Far - dy * dy THEN Far
  ELSE dx * dx + dy * dy

Dist2(a, b) == Norm2(b.x - a.x, b.y - a.y)

\* Math.sqrt(dx * dx + dy * dy)
Distance(a, b) == Sqrt(Dist2(a, b))

\* distance < r and distance > r for distance = Math.sqrt(d2), r >= 0
DistLess(d2, r) == d2 < r * r
DistGreater(d2, r) == d2 > r * r

\* ---------------------------------------------------------------- handleCollisions

\* (Math.random() - 0.5) * 100 lies in [-50, 50)
TeleportJitter == {-50 * PosScale, 0, 50 * PosScale - 1}

\* availableWormholes without the filter on the touched wormhole's id
AvailableWormholes_All(wh, id) == wh

\* wormholesRef.current.filter(w => w.id !== obj1.id)
AvailableWormholes(wh, id) == SelectSeq(wh, LAMBDA w : w.id # id)

\* Absorb with the whole of the smaller body's mass kept
Absorb_NoLoss(objs, li, si, tr, sc) ==
  LET larger == objs[li]
      mass   == larger.mass + objs[si].mass
  IN [objs |-> [objs EXCEPT ![li] = [larger EXCEPT !.mass = mass,
                                                   !.radius = calculateRadius(mass, larger.type)]],
      toRemove |-> Append(tr, objs[si].id),
      scoreIncrease |-> IF larger.id = "player"
                        THEN sc + ((objs[si].mass * 20) \div MassScale)
                        ELSE sc,
      kind |-> "absorb", larger |-> li, smaller |-> si]

\* Absorb that leaves the smaller body in the collection
Absorb_KeepsSmaller(objs, li, si, tr, sc) ==
  LET larger == objs[li]
      mass   == larger.mass + Quot(objs[si].mass * 8, 10)
  IN [objs |-> [objs EXCEPT ![li] = [larger EXCEPT !.mass = mass,
                                                   !.radius = calculateRadius(mass, larger.type)]],
      toRemove |-> tr,
      scoreIncrease |-> sc,
      kind |-> "absorb", larger |-> li, smaller |-> si]

\* Absorb that leaves the larger body's radius as it was
Absorb_StaleRadius(objs, li, si, tr, sc) ==
  LET larger == objs[li]
      mass   == larger.mass + Quot(objs[si].mass * 8, 10)
  IN [objs |-> [objs EXCEPT ![li] = [larger EXCEPT !.mass = mass]],
      toRemove |-> Append(tr, objs[si].id),
      scoreIncrease |-> IF larger.id = "player"
                        THEN sc + ((objs[si].mass * 20) \div MassScale)
                        ELSE sc,
      kind |-> "absorb", larger |-> li, smaller |-> si]

\* Absorb that counts the absorbed mass into scoreIncrease whoever the larger body is
Absorb_ScoresEveryBody(objs, li, si, tr, sc) ==
  LET larger == objs[li]
      mass   == larger.mass + Quot(objs[si].mass * 8, 10)
  IN [objs |-> [objs EXCEPT ![li] = [larger EXCEPT !.mass = mass,
                                                   !.radius = calculateRadius(mass, larger.type)]],
      toRemove |-> Append(tr, objs[si].id),
      scoreIncrease |-> sc + ((objs[si].mass * 20) \div MassScale),
      kind |-> "absorb", larger |-> li, smaller |-> si]

\* The "regular absorption" block: larger absorbs smaller when neither glows.
\* li, si: the indices of larger and smaller.
Absorb(objs, li, si, tr, sc) ==
  LET larger  == objs[li]
      smaller == objs[si]
      mass    == larger.mass + Quot(smaller.mass * MASS_ABSORPTION_RATE, 10)
      energy  == IF larger.hasEnergy /\ larger.energy # 0
                    /\ smaller.hasEnergy /\ smaller.energy # 0
                 THEN Min(larger.maxEnergy,
                          larger.energy + Quot(smaller.energy * ENERGY_ABSORPTION_RATE, 10))
                 ELSE larger.energy
  IN [objs |-> [objs EXCEPT ![li] = [larger EXCEPT !.mass = mass,
                                                   !.radius = calculateRadius(mass, larger.type),
                                                   !.energy = energy]],
      toRemove |-> Append(tr, smaller.id),
      scoreIncrease |-> IF larger.id = "player"
                        THEN sc + ((smaller.mass * 20) \div MassScale)
                        ELSE sc,
      kind |-> "absorb", larger |-> li, smaller |-> si]

\* whether the pair (i, j) reaches the Math.random() draws of the teleport
Teleports(objs, i, j, wh) ==
  /\ DistLess(Dist2(objs[i], objs[j]), objs[i].radius + objs[j].radius)
  /\ objs[i].type = "wormhole" /\ objs[j].type = "player"
  /\ Len(AvailableWormholes(wh, objs[i].id)) > 0

\* CollidePair without the test that neither body glows
CollidePair_AbsorbGlowing(objs, i, j, tr, sc, wh, pick, jx, jy) ==
  IF ~DistLess(Dist2(objs[i], objs[j]), objs[i].radius + objs[j].radius)
  THEN [objs |-> objs, toRemove |-> tr, scoreIncrease |-> sc,
        kind |-> "none", larger |-> 0, smaller |-> 0]
  ELSE IF objs[i].mass > objs[j].mass THEN Absorb(objs, i, j, tr, sc)
       ELSE Absorb(objs, j, i, tr, sc)

\* CollidePair with the fatal rule for a glowing obj1 only
CollidePair_OneSidedFatal(objs, i, j, tr, sc, wh, pick, jx, jy) ==
  LET obj1 == objs[i]
      obj2 == objs[j]
      same == [objs |-> objs, toRemove |-> tr, scoreIncrease |-> sc,
               kind |-> "none", larger |-> 0, smaller |-> 0]
  IN IF ~DistLess(Dist2(obj1, obj2), obj1.radius + obj2.radius) THEN same
     ELSE IF obj1.type = "wormhole" /\ obj2.type = "player"
     THEN LET available == AvailableWormholes(wh, obj1.id)
          IN IF Len(available) > 0
             THEN LET target == available[pick]
                  IN [same EXCEPT !.kind = "teleport",
                        !.objs = [objs EXCEPT ![j] = [obj2 EXCEPT
                                    !.x = target.x + jx, !.y = target.y + jy,
                                    !.vx = Quot(obj2.vx * 5, 10),
                                    !.vy = Quot(obj2.vy * 5, 10)]]]
             ELSE [same EXCEPT !.kind = "wormhole"]
     ELSE IF obj1.isGlowing /\ obj2.type = "player" /\ obj2.absorptionProgress > ProgScale
     THEN [same EXCEPT !.kind = "fatal",
                       !.objs = [objs EXCEPT ![j] = [obj2 EXCEPT !.energy = 0]]]
     ELSE LET li == IF obj1.mass > obj2.mass THEN i ELSE j
              si == IF obj1.mass > obj2.mass THEN j ELSE i
          IN IF ~objs[si].isGlowing /\ ~objs[li].isGlowing
             THEN Absorb(objs, li, si, tr, sc)
             ELSE [same EXCEPT !.kind = "glowing"]

\* The body of the inner loop of handleCollisions for the pair (i, j), i < j.
\* pick, jx, jy: the Math.random() draws of the teleport.
CollidePair(objs, i, j, tr, sc, wh, pick, jx, jy) ==
  LET obj1 == objs[i]
      obj2 == objs[j]
      same == [objs |-> objs, toRemove |-> tr, scoreIncrease |-> sc,
               kind |-> "none", larger |-> 0, smaller |-> 0]
  IN IF ~DistLess(Dist2(obj1, obj2), obj1.radius + obj2.radius) THEN same
     ELSE IF obj1.type = "wormhole" /\ obj2.type = "player"
     THEN LET available == AvailableWormholes(wh, obj1.id)
          IN IF Len(available) > 0
             THEN LET target == available[pick]
                  IN [same EXCEPT !.kind = "teleport",
                        !.objs = [objs EXCEPT ![j] = [obj2 EXCEPT
                                    !.x = target.x + jx, !.y = target.y + jy,
                                    !.vx = Quot(obj2.vx * 5, 10),
                                    !.vy = Quot(obj2.vy * 5, 10)]]]
             ELSE [same EXCEPT !.kind = "wormhole"]
     ELSE IF obj1.isGlowing /\ obj2.type = "player" /\ obj2.absorptionProgress > ProgScale
     THEN [same EXCEPT !.kind = "fatal",
                       !.objs = [objs EXCEPT ![j] = [obj2 EXCEPT !.energy = 0]]]
     ELSE IF obj2.isGlowing /\ obj1.type = "player" /\ obj1.absorptionProgress > ProgScale
     THEN [same EXCEPT !.kind = "fatal",
                       !.objs = [objs EXCEPT ![i] = [obj1 EXCEPT !.energy = 0]]]
     ELSE LET li == IF obj1.mass > obj2.mass THEN i ELSE j
              si == IF obj1.mass > obj2.mass THEN j ELSE i
          IN IF ~objs[si].isGlowing /\ ~objs[li].isGlowing
             THEN Absorb(objs, li, si, tr, sc)
             ELSE [same EXCEPT !.kind = "glowing"]

\* ---------------------------------------------------------------- forces

\* velocity units of (k / 10) * mass / distance^2
ForceScale == (PosScale * PosScale * PosScale) \div MassScale
InverseSquare(k, mass, d2) == Quot(k * mass * (ForceScale \div 10), d2)

\* (d / distance) * force
Along(d, d2, force) == Quot(d * force, SqrtUp(d2))

\* applyGravity, first forEach: the sum (fx, fy) over the bodies 1..m
RECURSIVE GravitySum(_, _, _)
GravitySum(objs, k, m) ==
  IF m = 0 THEN <<0, 0>>
  ELSE LET rest  == GravitySum(objs, k, m - 1)
           obj   == objs[k]
           other == objs[m]
           d2    == Dist2(obj, other)
           base  == InverseSquare(GRAVITY_CONSTANT, other.mass, d2)
           force == IF other.isGlowing THEN Quot(base * 13, 10) ELSE base
       IN IF other.id = obj.id \/ ~(d2 > 0) THEN rest
          ELSE <<rest[1] + Along(other.x - obj.x, d2, force),
                 rest[2] + Along(other.y - obj.y, d2, force)>>

\* applyGravity, the gravity-pull forEach: the list with the pull applied to 1..m
RECURSIVE PullOthers(_, _, _, _)
PullOthers(objs, k, m, pullStrengthMass) ==
  IF m = 0 THEN objs
  ELSE LET done  == PullOthers(objs, k, m - 1, pullStrengthMass)
           obj   == objs[k]
           other == objs[m]
           d2    == Dist2(other, obj)
           pullForce == InverseSquare(GRAVITY_PULL_STRENGTH, pullStrengthMass, d2)
       IN IF other.id = obj.id \/ other.mass >= obj.mass THEN done
          ELSE IF d2 > 0 /\ DistLess(d2, GRAVITY_PULL_RADIUS)
          THEN [done EXCEPT ![m] = [other EXCEPT
                  !.vx = other.vx + Along(obj.x - other.x, d2, pullForce),
                  !.vy = other.vy + Along(obj.y - other.y, d2, pullForce)]]
          ELSE done

\* The speed clamp at the end of applyGravity.  A velocity too large to square is
\* scaled down first: the normalised result does not depend on the scale.
ClampSpeed(vx, vy) ==
  LET big == Max(Abs(vx), Abs(vy))
      k   == (big \div 20000) + 1
      ux  == Quot(vx, k)
      uy  == Quot(vy, k)
      s2  == ux * ux + uy * uy
  IN IF (big > 20000) \/ (s2 > MAX_VELOCITY * MAX_VELOCITY)
     THEN <<Quot(ux * MAX_VELOCITY, SqrtUp(s2)), Quot(uy * MAX_VELOCITY, SqrtUp(s2))>>
     ELSE <<vx, vy>>

\* applyGravity(obj, objects) for obj = objs[k].  pr is playerRef.current; the result
\* gives the new list and the energy left in playerRef.current.
applyGravity(objs, k, pr, pullActive) ==
  LET f      == GravitySum(objs, k, Len(objs))
      pull   == pullActive /\ objs[k].id = "player" /\ pr.id # "" /\ pr.energy > 0
      pulled == IF pull THEN PullOthers(objs, k, Len(objs), pr.mass) ELSE objs
      v      == ClampSpeed(pulled[k].vx + f[1], pulled[k].vy + f[2])
  IN [objs |-> [pulled EXCEPT ![k] = [pulled[k] EXCEPT !.vx = v[1], !.vy = v[2]]],
      pull |-> pull,
      prEnergy |-> IF pull THEN pr.energy - PerFrame(GRAVITY_PULL_COST) ELSE pr.energy]

\* ---------------------------------------------------------------- handleOrbitalMechanics

MovementKeys == {"arrowleft", "arrowright", "arrowup", "arrowdown", "a", "d", "w", "s"}

\* the forEach of handleOrbitalMechanics over the bodies 1..m, for the player obj
RECURSIVE OrbitalFold(_, _, _, _)
OrbitalFold(objs, k, m, held) ==
  IF m = 0 THEN objs[k]
  ELSE LET obj == OrbitalFold(objs, k, m - 1, held)
           glowingObj == objs[m]
           dx == glowingObj.x - obj.x
           dy == glowingObj.y - obj.y
           d2 == Norm2(dx, dy)
           minOrbitDistance == glowingObj.radius + obj.radius + 10 * PosScale
           playerMoving == (held \cap MovementKeys) # {}
           progress == IF playerMoving
                       THEN Max(0, obj.absorptionProgress - 10 * (ProgScale \div 1000))
                       ELSE obj.absorptionProgress + ORBITAL_ABSORPTION_RATE
           risked == [obj EXCEPT !.absorptionProgress = progress,
                                 !.energy = IF ~playerMoving /\ progress > ProgScale
                                            THEN 0 ELSE obj.energy]
       IN IF ~glowingObj.isGlowing \/ glowingObj.id = obj.id THEN obj
          ELSE IF DistLess(d2, glowingObj.radius + obj.radius + 50 * PosScale)
          THEN IF DistGreater(d2, minOrbitDistance)
               THEN [risked EXCEPT !.vx = risked.vx + Along(-dy, d2, 2 * (PosScale \div 100)),
                                   !.vy = risked.vy + Along(dx, d2, 2 * (PosScale \div 100))]
               ELSE risked
          ELSE [obj EXCEPT !.absorptionProgress = 0]

\* handleOrbitalMechanics that takes the player for stalled whatever keys are held
handleOrbitalMechanics_IgnoresKeys(objs, k, held) ==
  IF objs[k].type = "player"
  THEN [objs EXCEPT ![k] = OrbitalFold(objs, k, Len(objs), {})]
  ELSE objs

handleOrbitalMechanics(objs, k, held) ==
  IF objs[k].type = "player"
  THEN [objs EXCEPT ![k] = OrbitalFold(objs, k, Len(objs), held)]
  ELSE objs

\* ---------------------------------------------------------------- updateEnergy

RECURSIVE ChargeFold(_, _, _, _)
ChargeFold(objs, k, m, energy) ==
  IF m = 0 THEN energy
  ELSE LET e     == ChargeFold(objs, k, m - 1, energy)
           obj   == objs[k]
           other == objs[m]
           d2    == Dist2(obj, other)
           rate  == IF other.chargingRate # 0 THEN other.chargingRate ELSE 1
           chargeRate == Quot(rate * (CHARGING_RADIUS - Sqrt(d2)) * ((16 * EnergyScale) \div 1000),
                              CHARGING_RADIUS)
       IN IF ~other.isGlowing \/ other.id = obj.id THEN e
          ELSE IF DistLess(d2, CHARGING_RADIUS)
                  /\ DistGreater(d2, other.radius + obj.radius + 5 * PosScale)
          THEN Min(obj.maxEnergy, e + chargeRate)
          ELSE e

updateEnergy(objs, k) ==
  IF ~objs[k].hasEnergy THEN objs
  ELSE [objs EXCEPT ![k].energy =
          ChargeFold(objs, k, Len(objs), Max(0, objs[k].energy - PerFrame(ENERGY_DECAY_RATE)))]

\* ---------------------------------------------------------------- updateAI

\* the fleeing forEach over the bodies 1..m: the velocity of ai after it
RECURSIVE FleeFold(_, _, _)
FleeFold(objs, k, m) ==
  IF m = 0 THEN <<objs[k].vx, objs[k].vy>>
  ELSE LET v      == FleeFold(objs, k, m - 1)
           ai     == objs[k]
           threat == objs[m]
           d2     == Dist2(ai, threat)
           larger == threat.id # ai.id /\ DistLess(d2, 300 * PosScale)
                     /\ threat.mass > ai.mass
       IN IF larger /\ d2 > 0 /\ DistLess(d2, 150 * PosScale)
          THEN <<v[1] + Along(ai.x - threat.x, d2, 15 * (PosScale \div 100)),
                 v[2] + Along(ai.y - threat.y, d2, 15 * (PosScale \div 100))>>
          ELSE v

\* ai pushed toward objs[t] with the given force
Toward(ai, target, force) ==
  LET d2 == Dist2(ai, target)
  IN IF d2 > 0
     THEN [ai EXCEPT !.vx = ai.vx + Along(target.x - ai.x, d2, force),
                     !.vy = ai.vy + Along(target.y - ai.y, d2, force)]
     ELSE ai

\* the first index of 1..Len(objs) satisfying P, 0 if none
FirstIndex(objs, P(_)) ==
  IF \E m \in Indices(objs) : P(m)
  THEN CHOOSE m \in Indices(objs) : P(m) /\ \A n \in 1..(m - 1) : ~P(n)
  ELSE 0

\* (Math.random() - 0.5) * 0.2 on each axis, drawn when Math.random() < 0.02;
\* <<0, 0>> also stands for no draw
ExploreDraws == {<<0, 0>>, <<-10 * (PosScale \div 100), 9 * (PosScale \div 100)>>}

\* updateAI with the test for larger bodies before the test for low energy
updateAI_FleesFirst(objs, k, throttled, draw) ==
  IF ~(objs[k].hasEnergy /\ objs[k].energy # 0) \/ throttled THEN objs
  ELSE
    LET old    == objs[k]
        mass   == IF old.mass < AI_MAX_MASS THEN old.mass + AI_GROWTH_RATE ELSE old.mass
        ai     == IF old.mass < AI_MAX_MASS
                  THEN [old EXCEPT !.mass = mass, !.radius = calculateRadius(mass, old.type)]
                  ELSE old
        Nearby(m)  == objs[m].id # ai.id /\ DistLess(Dist2(ai, objs[m]), 300 * PosScale)
        Smaller(m) == Nearby(m) /\ objs[m].mass < ai.mass /\ ~objs[m].isGlowing
        Larger(m)  == Nearby(m) /\ objs[m].mass > ai.mass
        Glowing(m) == Nearby(m) /\ objs[m].isGlowing
        grown  == [objs EXCEPT ![k] = ai]
        fled   == FleeFold(grown, k, Len(objs))
    IN IF FirstIndex(objs, Larger) # 0
       THEN [grown EXCEPT ![k] = [ai EXCEPT !.aiState = "fleeing",
                                            !.vx = fled[1], !.vy = fled[2]]]
       ELSE IF ai.energy < 30 * EnergyScale /\ FirstIndex(objs, Glowing) # 0
       THEN [grown EXCEPT ![k] = [Toward(ai, objs[FirstIndex(objs, Glowing)],
                                         10 * (PosScale \div 100))
                                  EXCEPT !.aiState = "charging"]]
       ELSE IF FirstIndex(objs, Smaller) # 0
       THEN [grown EXCEPT ![k] = [Toward(ai, objs[FirstIndex(objs, Smaller)],
                                         8 * (PosScale \div 100))
                                  EXCEPT !.aiState = "hunting"]]
       ELSE [grown EXCEPT ![k] = [ai EXCEPT !.aiState = "exploring",
                                            !.vx = ai.vx + draw[1], !.vy = ai.vy + draw[2]]]

\* updateAI(ai, objects) for ai = objs[k].  throttled: now - lastMovementTime < 100.
updateAI(objs, k, throttled, draw) ==
  IF ~(objs[k].hasEnergy /\ objs[k].energy # 0) \/ throttled THEN objs
  ELSE
    LET old    == objs[k]
        mass   == IF old.mass < AI_MAX_MASS THEN old.mass + AI_GROWTH_RATE ELSE old.mass
        ai     == IF old.mass < AI_MAX_MASS
                  THEN [old EXCEPT !.mass = mass, !.radius = calculateRadius(mass, old.type)]
                  ELSE old
        Nearby(m)  == objs[m].id # ai.id /\ DistLess(Dist2(ai, objs[m]), 300 * PosScale)
        Smaller(m) == Nearby(m) /\ objs[m].mass < ai.mass /\ ~objs[m].isGlowing
        Larger(m)  == Nearby(m) /\ objs[m].mass > ai.mass
        Glowing(m) == Nearby(m) /\ objs[m].isGlowing
        grown  == [objs EXCEPT ![k] = ai]
        fled   == FleeFold(grown, k, Len(objs))
    IN IF ai.energy < 30 * EnergyScale /\ FirstIndex(objs, Glowing) # 0
       THEN [grown EXCEPT ![k] = [Toward(ai, objs[FirstIndex(objs, Glowing)],
                                         10 * (PosScale \div 100))
                                  EXCEPT !.aiState = "charging"]]
       ELSE IF FirstIndex(objs, Larger) # 0
       THEN [grown EXCEPT ![k] = [ai EXCEPT !.aiState = "fleeing",
                                            !.vx = fled[1], !.vy = fled[2]]]
       ELSE IF FirstIndex(objs, Smaller) # 0
       THEN [grown EXCEPT ![k] = [Toward(ai, objs[FirstIndex(objs, Smaller)],
                                         8 * (PosScale \div 100))
                                  EXCEPT !.aiState = "hunting"]]
       ELSE [grown EXCEPT ![k] = [ai EXCEPT !.aiState = "exploring",
                                            !.vx = ai.vx + draw[1], !.vy = ai.vy + draw[2]]]

\* ---------------------------------------------------------------- handleSpaceActivities

\* ActivityFold without the test of activity.discovered
RECURSIVE ActivityFold_Rediscovers(_, _)
ActivityFold_Rediscovers(st, m) ==
  IF m = 0 THEN st
  ELSE LET s        == ActivityFold_Rediscovers(st, m - 1)
           activity == s.acts[m]
           player   == s.player
           d2       == Norm2(activity.x - player.x, activity.y - player.y)
       IN IF DistLess(d2, activity.radius + player.radius)
          THEN [acts   |-> [s.acts EXCEPT ![m].discovered = TRUE],
                score  |-> s.score + activity.reward,
                player |-> IF activity.type = "energyCrystal"
                           THEN [player EXCEPT !.energy = player.maxEnergy]
                           ELSE player]
          ELSE s

\* the forEach of handleSpaceActivities over the activities 1..m; st = [acts, player, score]
RECURSIVE ActivityFold(_, _)
ActivityFold(st, m) ==
  IF m = 0 THEN st
  ELSE LET s        == ActivityFold(st, m - 1)
           activity == s.acts[m]
           player   == s.player
           d2       == Norm2(activity.x - player.x, activity.y - player.y)
       IN IF DistLess(d2, activity.radius + player.radius) /\ ~activity.discovered
          THEN [acts   |-> [s.acts EXCEPT ![m].discovered = TRUE],
                score  |-> s.score + activity.reward,
                player |-> IF activity.type = "energyCrystal"
                           THEN [player EXCEPT !.energy = player.maxEnergy]
                           ELSE player]
          ELSE s

\* ---------------------------------------------------------------- cosmic events

MaxEvents == 1
MaxSpawned == 1

\* generateCosmicEvents: the draws of Math.random() < 0.004 and of the event type;
\* of the nine types the two that push bodies, "none" for no event made
EventDraws == {"none", "meteorShower", "asteroidBelt"}

\* the event generateCosmicEvents pushes: 300 to 800 from the player, 8 to 16
\* seconds to live (in milliseconds), radius 80 to 180
NewEvent(type, player, n) ==
  [id |-> <<"e1", "e2", "e3">>[n], type |-> type,
   x |-> player.x + 400 * PosScale, y |-> player.y,
   radius |-> 100 * PosScale, timeLeft |-> 8000]

\* the body updateCosmicEvents pushes for an event: a meteor (type debris, mass 1.5
\* to 4) or an asteroid (mass 2 to 6), within half the event's radius of its centre
SpawnIds == <<"s1", "s2", "s3">>
SpawnVelocity == <<-199, 149>>
NewSpawn(event, n) ==
  IF event.type = "meteorShower"
  THEN NewInert(SpawnIds[n], "debris", event.x - 30 * PosScale, event.y + 20 * PosScale,
                SpawnVelocity[1], SpawnVelocity[2], 2 * MassScale)
  ELSE NewInert(SpawnIds[n], "asteroid", event.x - 30 * PosScale, event.y + 20 * PosScale,
                SpawnVelocity[1], SpawnVelocity[2], 4 * MassScale)

\* AgeEvents with the filter on timeLeft >= 0
AgeEvents_KeepsSpent(events) ==
  SelectSeq([n \in Indices(events) |-> [events[n] EXCEPT !.timeLeft = @ - 16]],
            LAMBDA e : e.timeLeft >= 0)

\* updateCosmicEvents: event.timeLeft -= 0.016, and the filter on timeLeft > 0
AgeEvents(events) ==
  SelectSeq([n \in Indices(events) |-> [events[n] EXCEPT !.timeLeft = @ - 16]],
            LAMBDA e : e.timeLeft > 0)

\* the events whose Math.random() draw may push a body this tick
Spawning(events) ==
  {n \in Indices(events) :
     events[n].type \in {"meteorShower", "asteroidBelt"} /\ events[n].timeLeft - 16 > 0}

\* the bodies pushed for the events in S, in the order of the events
RECURSIVE Spawns(_, _, _, _)
Spawns(events, S, n, count) ==
  IF n = 0 THEN <<>>
  ELSE IF n \in S
       THEN Append(Spawns(events, S \ {n}, n - 1, count),
                   NewSpawn(events[n], count + Cardinality(S)))
       ELSE Spawns(events, S, n - 1, count)

\* ---------------------------------------------------------------- client state

clientVars == <<gameObjects, wormholes, playerRef, playerAliased, keys, gravityPullActive,
                spaceActivities, cosmicEvents, spawned, score, gameState, frameCount, pc, idx, pairI, pairJ,
                toRemove, scoreIncrease, pre, contacts, last,
                activeDirections, touches, isPaused, rafQueue, effectDeps, otherPlayers>>
netVars    == <<wsOpen, wsPending, toServer, toClient, srvPlayers, srvObjects, srvTicks,
                srvOwners, srvOpen, srvSent>>
vars       == <<clientVars, netVars>>

\* wsPending: connectWebSocket has made a socket that is not open yet; ws.onclose has
\* set the timeout that calls connectWebSocket; neither
PendingSocket == [kind |-> "socket", delay |-> 0]
PendingTimer(delay) == [kind |-> "timer", delay |-> delay]
NoPending == [kind |-> "none", delay |-> 0]

\* the record kept in last
Did(op, k) == [op |-> op, k |-> k, i |-> 0, j |-> 0, smaller |-> 0]

\* playerRef.current before initGame
NullBody == Body("", "", 0, 0, 0, 0, 0, 0, FALSE, 0, 0, FALSE, 0)

\* the action of an action message; present is FALSE when the message has none
PlayerAction(type, active) == [present |-> TRUE, type |-> type, active |-> active]
NoAction == [present |-> FALSE, type |-> "", active |-> FALSE]

\* the text of a message of the client as the server's JSON.parse reads it; parses is
\* FALSE when JSON.parse throws, type is "" when the object has no type
ClientMessage(type, state, action) ==
  [parses |-> TRUE, type |-> type, state |-> state, action |-> action]

\* playerRef.current
PlayerRefBody ==
  IF playerAliased THEN gameObjects[FindPlayer(gameObjects)] ELSE playerRef

\* a write of field energy through playerRef.current
WithPlayerRefEnergy(objs, e) ==
  IF playerAliased THEN [objs EXCEPT ![FindPlayer(objs)].energy = e] ELSE objs

\* wormholesRef.current holds the list's own wormhole objects: the entries that are
\* still those objects (live) move with them
MoveWormholes(wh, body) ==
  [n \in Indices(wh) |->
     IF wh[n].live /\ wh[n].id = body.id /\ body.type = "wormhole"
     THEN [wh[n] EXCEPT !.x = body.x, !.y = body.y] ELSE wh[n]]

\* ---------------------------------------------------------------- gameLoop

\* the frame at which the model takes up a session, and the ticks it then runs; no
\* generator runs at the frames in between (none is a multiple of 240, 300 or 600)
SnapshotFrame == 1801
MaxFrames == 2

\* The forEach of gameLoop runs, for each body, the calls whose conditions hold:
\* updateAI for an AI, applyGravity unless the body glows and is no wormhole,
\* handleOrbitalMechanics (which acts for a player only), updateEnergy (which acts
\* with energy and maxEnergy defined), then the integration.
Stages == <<"updateAI", "applyGravity", "orbital", "updateEnergy", "integrate">>

Runs(obj, stage) ==
  CASE stage = "updateAI"     -> obj.type = "ai"
    [] stage = "applyGravity" -> ~obj.isGlowing \/ obj.type = "wormhole"
    [] stage = "orbital"      -> obj.type = "player"
    [] stage = "updateEnergy" -> obj.hasEnergy
    [] OTHER                  -> TRUE

\* the first call that runs for obj among the stages n..5
RECURSIVE StageFrom(_, _)
StageFrom(obj, n) ==
  IF n >= Len(Stages) \/ Runs(obj, Stages[n]) THEN Stages[Min(n, Len(Stages))]
  ELSE StageFrom(obj, n + 1)

\* animationRef.current = requestAnimationFrame(gameLoop)
RequestFrame(queue) == Append([n \in Indices(queue) |-> FALSE], TRUE)

\* if (animationRef.current) cancelAnimationFrame(animationRef.current): a request
\* that has run or was cancelled is no longer in the queue
CancelFrame(queue) == SelectSeq(queue, LAMBDA referenced : ~referenced)

\* The game loop effect for dependencies that changed from `before` to `now`: the
\* cleanup of the run before, if that run had requested a frame, then the effect
LoopEffectRun(queue, before, now) ==
  LET cleaned == IF before = <<"playing", FALSE>> THEN CancelFrame(queue) ELSE queue
  IN IF before = now THEN queue
     ELSE IF now = <<"playing", FALSE>> THEN RequestFrame(cleaned) ELSE cleaned

\* gameLoop up to the forEach: the frame counter, the terminal check, the player input.
\* The callback is the oldest request pending in the animation-frame queue.
TickStart ==
  /\ pc = "idle" /\ rafQueue # <<>> /\ frameCount < SnapshotFrame + MaxFrames
  /\ rafQueue' = Tail(rafQueue)
  /\ frameCount' = frameCount + 1
  /\ LET p == FindPlayer(gameObjects)
         acceleration == 15 * (PosScale \div 100)
         left  == ("arrowleft" \in keys) \/ ("a" \in keys)
         right == ("arrowright" \in keys) \/ ("d" \in keys)
         up    == ("arrowup" \in keys) \/ ("w" \in keys)
         down  == ("arrowdown" \in keys) \/ ("s" \in keys)
     IN IF p = 0 \/ (gameObjects[p].hasEnergy /\ gameObjects[p].energy <= 0)
        THEN /\ gameState' = "gameOver"
             /\ last' = Did("gameOver", 0)
             /\ UNCHANGED <<gameObjects, pc, idx>>
        ELSE /\ gameObjects' = [gameObjects EXCEPT
                  ![p].vx = @ - (IF left THEN acceleration ELSE 0)
                              + (IF right THEN acceleration ELSE 0),
                  ![p].vy = @ - (IF up THEN acceleration ELSE 0)
                              + (IF down THEN acceleration ELSE 0)]
             /\ pc' = StageFrom(gameObjects'[1], 1) /\ idx' = 1
             /\ last' = Did("input", p)
             /\ UNCHANGED gameState
  /\ UNCHANGED <<wormholes, playerRef, playerAliased, keys, gravityPullActive,
                 spaceActivities, cosmicEvents, spawned, score, pairI, pairJ, toRemove, scoreIncrease, pre, contacts>>
  /\ UNCHANGED <<activeDirections, touches, isPaused, effectDeps>>
  /\ UNCHANGED netVars
  /\ UNCHANGED otherPlayers

\* forEach body: if (obj.type === "ai") updateAI(obj, objects)
StepUpdateAI ==
  /\ pc = "updateAI"
  /\ \E throttled \in BOOLEAN, draw \in ExploreDraws :
       /\ gameObjects' = updateAI(gameObjects, idx, throttled, draw)
       /\ last' = Did(IF throttled THEN "throttled" ELSE "updateAI", idx)
  /\ pc' = StageFrom(gameObjects'[idx], 2)
  /\ UNCHANGED <<wormholes, playerRef, playerAliased, keys, gravityPullActive,
                 spaceActivities, cosmicEvents, spawned, score, gameState, frameCount, idx, pairI, pairJ,
                 toRemove, scoreIncrease, pre, contacts>>
  /\ UNCHANGED <<activeDirections, touches, isPaused, rafQueue, effectDeps>>
  /\ UNCHANGED netVars
  /\ UNCHANGED otherPlayers

\* forEach body: if (!obj.isGlowing || obj.type === "wormhole") applyGravity(obj, objects)
StepApplyGravity ==
  /\ pc = "applyGravity"
  /\ LET obj == gameObjects[idx]
         r   == applyGravity(gameObjects, idx, PlayerRefBody, gravityPullActive)
     IN /\ gameObjects' = WithPlayerRefEnergy(r.objs, r.prEnergy)
        /\ playerRef' = IF playerAliased THEN playerRef
                        ELSE [playerRef EXCEPT !.energy = r.prEnergy]
        /\ last' = Did(IF r.pull THEN "gravityPull" ELSE "applyGravity", idx)
  /\ pc' = StageFrom(gameObjects'[idx], 3)
  /\ UNCHANGED <<wormholes, playerAliased, keys, gravityPullActive,
                 spaceActivities, cosmicEvents, spawned, score, gameState, frameCount, idx, pairI, pairJ,
                 toRemove, scoreIncrease, pre, contacts>>
  /\ UNCHANGED <<activeDirections, touches, isPaused, rafQueue, effectDeps>>
  /\ UNCHANGED netVars
  /\ UNCHANGED otherPlayers

\* forEach body: handleOrbitalMechanics(obj, objects)
StepOrbital ==
  /\ pc = "orbital"
  /\ gameObjects' = handleOrbitalMechanics(gameObjects, idx, keys)
  /\ pc' = StageFrom(gameObjects'[idx], 4)
  /\ last' = Did("orbital", idx)
  /\ UNCHANGED <<wormholes, playerRef, playerAliased, keys, gravityPullActive,
                 spaceActivities, cosmicEvents, spawned, score, gameState, frameCount, idx, pairI, pairJ,
                 toRemove, scoreIncrease, pre, contacts>>
  /\ UNCHANGED <<activeDirections, touches, isPaused, rafQueue, effectDeps>>
  /\ UNCHANGED netVars
  /\ UNCHANGED otherPlayers

\* forEach body: updateEnergy(obj, objects)
StepUpdateEnergy ==
  /\ pc = "updateEnergy"
  /\ gameObjects' = updateEnergy(gameObjects, idx)
  /\ pc' = "integrate"
  /\ last' = Did("updateEnergy", idx)
  /\ UNCHANGED <<wormholes, playerRef, playerAliased, keys, gravityPullActive,
                 spaceActivities, cosmicEvents, spawned, score, gameState, frameCount, idx, pairI, pairJ,
                 toRemove, scoreIncrease, pre, contacts>>
  /\ UNCHANGED <<activeDirections, touches, isPaused, rafQueue, effectDeps>>
  /\ UNCHANGED netVars
  /\ UNCHANGED otherPlayers


\* obj.x += obj.vx; obj.y += obj.vy; obj.vx *= 0.998; obj.vy *= 0.998, with the
\* velocity damped before the move
Integrate_DampsFirst(obj) ==
  [obj EXCEPT !.vx = Quot(obj.vx * 998, 1000), !.vy = Quot(obj.vy * 998, 1000),
              !.x = obj.x + Quot(obj.vx * 998, 1000),
              !.y = obj.y + Quot(obj.vy * 998, 1000)]

\* obj.x += obj.vx; obj.y += obj.vy; obj.vx *= 0.998; obj.vy *= 0.998
Integrate(obj) ==
  [obj EXCEPT !.x = obj.x + obj.vx, !.y = obj.y + obj.vy,
              !.vx = Quot(obj.vx * 998, 1000), !.vy = Quot(obj.vy * 998, 1000)]

\* forEach body: obj.x += obj.vx ... obj.vy *= 0.998; after the last body,
\* handleSpaceActivities and the start of handleCollisions
StepIntegrate ==
  /\ pc = "integrate"
  /\ LET obj   == gameObjects[idx]
         moved == Integrate(obj)
     IN /\ gameObjects' = [gameObjects EXCEPT ![idx] = moved]
        /\ wormholes' = MoveWormholes(wormholes, moved)
  /\ IF idx < Len(gameObjects)
     THEN pc' = StageFrom(gameObjects'[idx + 1], 1) /\ idx' = idx + 1
     ELSE pc' = "activities" /\ idx' = 0
  /\ last' = Did("integrate", idx)
  /\ UNCHANGED <<playerRef, playerAliased, keys, gravityPullActive,
                 spaceActivities, cosmicEvents, spawned, score, gameState, frameCount, pairI, pairJ,
                 toRemove, scoreIncrease, pre, contacts>>
  /\ UNCHANGED <<activeDirections, touches, isPaused, rafQueue, effectDeps>>
  /\ UNCHANGED netVars
  /\ UNCHANGED otherPlayers

\* generateCosmicEvents(), updateCosmicEvents(), handleSpaceActivities(), then the
\* entry of handleCollisions(objects)
StepActivities ==
  /\ pc = "activities"
  /\ \E draw \in IF Len(cosmicEvents) < MaxEvents /\ PlayerRefBody.id # ""
                  THEN EventDraws ELSE {"none"} :
       LET events == IF draw = "none" THEN cosmicEvents
                     ELSE Append(cosmicEvents,
                                 NewEvent(draw, PlayerRefBody, Len(cosmicEvents) + 1))
       IN \E S \in SUBSET Spawning(events) :
            /\ spawned + Cardinality(S) <= MaxSpawned
            /\ LET pushed == gameObjects \o Spawns(events, S, Len(events), spawned)
                   r == IF PlayerRefBody.id = ""
                        THEN [acts |-> spaceActivities, score |-> score,
                              player |-> PlayerRefBody]
                        ELSE ActivityFold([acts |-> spaceActivities, score |-> score,
                                           player |-> PlayerRefBody], Len(spaceActivities))
               IN /\ cosmicEvents' = AgeEvents(events)
                  /\ spawned' = spawned + Cardinality(S)
                  /\ spaceActivities' = r.acts
                  /\ score' = r.score
                  /\ gameObjects' = WithPlayerRefEnergy(pushed, r.player.energy)
                  /\ playerRef' = IF playerAliased THEN playerRef
                                  ELSE [playerRef EXCEPT !.energy = r.player.energy]
                  /\ last' = Did(IF r.acts # spaceActivities THEN "discover"
                                 ELSE IF S # {} THEN "spawn" ELSE "activities", 0)
  /\ pre' = gameObjects' /\ contacts' = {}
  /\ toRemove' = <<>> /\ scoreIncrease' = 0
  /\ IF Len(gameObjects') >= 2
     THEN pc' = "collide" /\ pairI' = 1 /\ pairJ' = 2
     ELSE pc' = "finish" /\ pairI' = 0 /\ pairJ' = 0
  /\ UNCHANGED <<wormholes, playerAliased, keys, gravityPullActive,
                 gameState, frameCount, idx>>
  /\ UNCHANGED <<activeDirections, touches, isPaused, rafQueue, effectDeps>>
  /\ UNCHANGED netVars
  /\ UNCHANGED otherPlayers

\* one iteration of the inner loop of handleCollisions
StepCollide ==
  /\ pc = "collide"
  /\ \E pick \in IF Teleports(gameObjects, pairI, pairJ, wormholes)
                  THEN 1..Len(AvailableWormholes(wormholes, gameObjects[pairI].id))
                  ELSE {1},
        jx \in IF Teleports(gameObjects, pairI, pairJ, wormholes) THEN TeleportJitter ELSE {0},
        jy \in IF Teleports(gameObjects, pairI, pairJ, wormholes) THEN TeleportJitter ELSE {0} :
       LET r == CollidePair(gameObjects, pairI, pairJ, toRemove, scoreIncrease,
                            wormholes, pick, jx, jy)
       IN /\ gameObjects' = r.objs
          /\ toRemove' = r.toRemove
          /\ scoreIncrease' = r.scoreIncrease
          /\ contacts' = IF r.kind = "none" THEN contacts
                          ELSE contacts \cup {<<pairI, pairJ>>}
          /\ last' = [op |-> r.kind, k |-> r.larger, i |-> pairI, j |-> pairJ,
                      smaller |-> r.smaller]
  /\ LET n == Len(gameObjects)
     IN IF pairJ < n THEN pc' = pc /\ pairI' = pairI /\ pairJ' = pairJ + 1
        ELSE IF pairI + 1 < n THEN pc' = pc /\ pairI' = pairI + 1 /\ pairJ' = pairI + 2
        ELSE pc' = "finish" /\ pairI' = 0 /\ pairJ' = 0
  /\ UNCHANGED <<wormholes, playerRef, playerAliased, keys, gravityPullActive,
                 spaceActivities, cosmicEvents, spawned, score, gameState, frameCount, idx, pre>>
  /\ UNCHANGED <<activeDirections, touches, isPaused, rafQueue, effectDeps>>
  /\ UNCHANGED netVars
  /\ UNCHANGED otherPlayers

\* objects.filter(obj => !toRemove.includes(obj.id))
Survivors(objs, tr) == SelectSeq(objs, LAMBDA o : ~Includes(tr, o.id))

\* sendPlayerUpdate(): the message sent, if any
PlayerUpdate(open, body) ==
  IF open /\ body.id # "" THEN <<ClientMessage("update", body, NoAction)>> ELSE <<>>

\* sendPlayerAction(action): the message sent, if any
sendPlayerAction(open, action) ==
  IF open THEN <<ClientMessage("action", NullBody, action)>> ELSE <<>>

\* gameLoop after handleCollisions: the removals, the score, playerRef.current =
\* currentPlayer, the update sent every second frame, the next frame requested
TickEnd ==
  /\ pc = "finish"
  /\ LET p == FindPlayer(gameObjects)
         currentPlayer == gameObjects[p]
     IN /\ gameObjects' = Survivors(gameObjects, toRemove)
        /\ wormholes' = SelectSeq(wormholes, LAMBDA w : ~Includes(toRemove, w.id))
        /\ score' = IF scoreIncrease > 0 THEN score + scoreIncrease ELSE score
        /\ playerAliased' = ~Includes(toRemove, currentPlayer.id)
        /\ playerRef' = IF Includes(toRemove, currentPlayer.id) THEN currentPlayer
                        ELSE NullBody
        /\ toServer' = IF frameCount % 2 = 0
                       THEN toServer \o PlayerUpdate(wsOpen, currentPlayer)
                       ELSE toServer
  /\ rafQueue' = RequestFrame(rafQueue)
  /\ pc' = "idle"
  /\ last' = Did("tickEnd", 0)
  /\ UNCHANGED <<keys, gravityPullActive, spaceActivities, cosmicEvents, spawned, gameState, frameCount,
                 idx, pairI, pairJ, toRemove, scoreIncrease, pre, contacts>>
  /\ UNCHANGED <<activeDirections, touches, isPaused, effectDeps>>
  /\ UNCHANGED <<wsOpen, wsPending, toClient, srvPlayers, srvObjects, srvTicks, srvOwners, srvOpen, srvSent>>
  /\ UNCHANGED otherPlayers

\* The game loop effect, run by React after a render in which gameState or isPaused
\* differs from the render before; here for the gameState that gameLoop has set
LoopEffect ==
  /\ pc = "idle" /\ effectDeps # <<gameState, isPaused>>
  /\ rafQueue' = LoopEffectRun(rafQueue, effectDeps, <<gameState, isPaused>>)
  /\ effectDeps' = <<gameState, isPaused>>
  /\ UNCHANGED <<gameObjects, wormholes, playerRef, playerAliased, keys, gravityPullActive,
                 spaceActivities, cosmicEvents, spawned, score, gameState, frameCount, pc, idx,
                 pairI, pairJ, toRemove, scoreIncrease, pre, contacts, last>>
  /\ UNCHANGED <<activeDirections, touches, isPaused>>
  /\ UNCHANGED netVars
  /\ UNCHANGED otherPlayers

\* the most requests pending in the animation-frame queue at which the model still
\* lets the player press pause or resume
MaxPending == 3

\* handlePause, from the pause button of the touch controls and from the pause
\* menu, both rendered while gameState is "playing"; then the render and the game
\* loop effect that the click's state change brings
handlePause ==
  /\ pc = "idle" /\ gameState = "playing" /\ Len(rafQueue) < MaxPending
  /\ isPaused' = ~isPaused
  /\ LET settled == LoopEffectRun(rafQueue, effectDeps, <<gameState, isPaused>>)
         handled == IF isPaused THEN RequestFrame(settled) ELSE CancelFrame(settled)
     IN rafQueue' = LoopEffectRun(handled, <<gameState, isPaused>>, <<gameState, ~isPaused>>)
  /\ effectDeps' = <<gameState, ~isPaused>>
  /\ last' = Did(IF isPaused THEN "resume" ELSE "pause", 0)
  /\ UNCHANGED <<gameObjects, wormholes, playerRef, playerAliased, keys, gravityPullActive,
                 spaceActivities, cosmicEvents, spawned, score, gameState, frameCount, pc, idx,
                 pairI, pairJ, toRemove, scoreIncrease, pre, contacts>>
  /\ UNCHANGED <<activeDirections, touches>>
  /\ UNCHANGED netVars
  /\ UNCHANGED otherPlayers

\* ---------------------------------------------------------------- touch controls

\* the direction buttons the model touches, and how many touches it starts
ModelDirections == {"right"}
MaxTouches == 2

\* MobileControls.updateMovement: the vector handed to onMove, in thousandths
updateMovement(directions) ==
  LET x == (IF "right" \in directions THEN 1000 ELSE 0) - (IF "left" \in directions THEN 1000 ELSE 0)
      y == (IF "down" \in directions THEN 1000 ELSE 0) - (IF "up" \in directions THEN 1000 ELSE 0)
  IN IF x # 0 /\ y # 0 THEN [x |-> Quot(x * 707, 1000), y |-> Quot(y * 707, 1000)]
     ELSE [x |-> x, y |-> y]

\* handleMobileMove(direction): a push on playerRef.current, once per call
handleMobileMove(objs, ref, aliased, direction) ==
  LET acceleration == 15 * (PosScale \div 100)
      push(body) == [body EXCEPT !.vx = @ + Quot(direction.x * acceleration, 1000),
                                 !.vy = @ + Quot(direction.y * acceleration, 1000)]
      none == (IF aliased THEN FindPlayer(objs) = 0 ELSE ref.id = "")
  IN IF none \/ gameState # "playing" \/ isPaused
     THEN [objs |-> objs, ref |-> ref]
     ELSE IF aliased
          THEN [objs |-> [objs EXCEPT ![FindPlayer(objs)] = push(@)], ref |-> ref]
          ELSE [objs |-> objs, ref |-> push(ref)]

\* MobileControls.handleDirectionStart(direction): the set, then updateMovement and
\* onMove; the controls are rendered while gameState is "playing"
handleDirectionStart(direction) ==
  /\ pc = "idle" /\ gameState = "playing" /\ touches < MaxTouches
  /\ touches' = touches + 1
  /\ activeDirections' = activeDirections \cup {direction}
  /\ LET r == handleMobileMove(gameObjects, playerRef, playerAliased,
                                updateMovement(activeDirections'))
     IN gameObjects' = r.objs /\ playerRef' = r.ref
  /\ last' = Did("touchStart", 0)
  /\ UNCHANGED <<wormholes, playerAliased, keys, gravityPullActive, spaceActivities, cosmicEvents,
                 spawned, score, gameState, frameCount, pc, idx, pairI, pairJ, toRemove,
                 scoreIncrease, pre, contacts>>
  /\ UNCHANGED <<isPaused, rafQueue, effectDeps>>
  /\ UNCHANGED netVars
  /\ UNCHANGED otherPlayers

\* MobileControls.handleDirectionEnd(direction)
handleDirectionEnd(direction) ==
  /\ pc = "idle" /\ gameState = "playing" /\ direction \in activeDirections
  /\ activeDirections' = activeDirections \ {direction}
  /\ LET r == handleMobileMove(gameObjects, playerRef, playerAliased,
                                updateMovement(activeDirections'))
     IN gameObjects' = r.objs /\ playerRef' = r.ref
  /\ last' = Did("touchEnd", 0)
  /\ UNCHANGED <<wormholes, playerAliased, keys, gravityPullActive, spaceActivities, cosmicEvents,
                 spawned, score, gameState, frameCount, pc, idx, pairI, pairJ, toRemove,
                 scoreIncrease, pre, contacts>>
  /\ UNCHANGED <<touches, isPaused, rafQueue, effectDeps>>
  /\ UNCHANGED netVars
  /\ UNCHANGED otherPlayers

\* ---------------------------------------------------------------- key events

\* the keys the model presses: one movement key, and Space
ModelKeys == {"d", " "}

\* handleKeyDown
handleKeyDown(key) ==
  /\ pc = "idle"
  /\ keys' = keys \cup {key}
  /\ gravityPullActive' = IF key = " " THEN TRUE ELSE gravityPullActive
  /\ UNCHANGED <<last, gameObjects, wormholes, playerRef, playerAliased, spaceActivities, cosmicEvents, spawned, score,
                 gameState, frameCount, pc, idx, pairI, pairJ, toRemove, scoreIncrease, pre, contacts>>
  /\ UNCHANGED <<activeDirections, touches, isPaused, rafQueue, effectDeps>>
  /\ UNCHANGED netVars
  /\ UNCHANGED otherPlayers

\* handleKeyUp
handleKeyUp(key) ==
  /\ pc = "idle"
  /\ keys' = keys \ {key}
  /\ gravityPullActive' = IF key = " " THEN FALSE ELSE gravityPullActive
  /\ UNCHANGED <<last, gameObjects, wormholes, playerRef, playerAliased, spaceActivities, cosmicEvents, spawned, score,
                 gameState, frameCount, pc, idx, pairI, pairJ, toRemove, scoreIncrease, pre, contacts>>
  /\ UNCHANGED <<activeDirections, touches, isPaused, rafQueue, effectDeps>>
  /\ UNCHANGED netVars
  /\ UNCHANGED otherPlayers

\* ---------------------------------------------------------------- the collision pass alone

MaxBodies == 3

OtherIds == <<"o1", "o2", "o3", "o4", "o5", "o6">>

CollideKinds == {"player", "grown", "risked", "debris", "comet", "ai", "planet",
                 "star", "wormhole", "spacestation"}
CollideXs == {0, 13 * PosScale}

\* a body as its creation site makes it, later in the session
CollideBody(n, kind, x) ==
  CASE kind = "player" -> [NewPlayer EXCEPT !.x = x, !.vx = PosScale, !.vy = -(PosScale \div 2)]
    [] kind = "grown"  -> [NewPlayer EXCEPT !.x = x, !.vx = PosScale, !.vy = -(PosScale \div 2),
                             !.mass = 10 * MassScale,
                             !.radius = calculateRadius(10 * MassScale, "player")]
    [] kind = "risked" -> [NewPlayer EXCEPT !.x = x, !.vx = PosScale, !.vy = -(PosScale \div 2),
                             !.absorptionProgress = ProgScale + ProgScale \div 5]
    [] kind = "debris" -> NewInert(OtherIds[n], "debris", x, 0, 0, 0, 2 * MassScale)
    [] kind = "comet"  -> NewInert(OtherIds[n], "comet", x, 0, 0, 0, 5 * MassScale)
    [] kind = "planet" -> NewInert(OtherIds[n], "planet", x, 0, 0, 0, 40 * MassScale)
    [] kind = "ai"     -> NewAI(OtherIds[n], x, 0, 0, 0, 10 * MassScale, 50 * EnergyScale)
    [] kind = "star"   -> NewGlowing(OtherIds[n], "star", x, 0, 120 * MassScale)
    [] kind = "wormhole" -> NewGlowing(OtherIds[n], "wormhole", x, 0, 20 * MassScale)
    [] kind = "spacestation" -> NewGlowing(OtherIds[n], "spacestation", x, 0, 20 * MassScale)

IsPlayerKind(kind) == kind \in {"player", "grown", "risked"}

\* the body lists a collision pass starts from: one player, in any place
CollideChoices(len) ==
  { c \in [1..len -> CollideKinds \X CollideXs] :
      Cardinality({n \in 1..len : IsPlayerKind(c[n][1])}) = 1 }

CollideWorld(c) == [n \in DOMAIN c |-> CollideBody(n, c[n][1], c[n][2])]

\* wormholesRef.current: the wormholes of the list, as generateObjectsAroundPlayer pushed them
WormholesOf(objs) ==
  LET ws == SelectSeq(objs, LAMBDA o : o.type = "wormhole")
  IN [n \in Indices(ws) |-> [id |-> ws[n].id, x |-> ws[n].x, y |-> ws[n].y, live |-> TRUE]]

NoNet ==
  /\ otherPlayers = <<>>
  /\ wsOpen = FALSE /\ wsPending = PendingSocket /\ toServer = <<>> /\ toClient = <<>>
  /\ srvPlayers = <<>> /\ srvObjects = <<>> /\ srvTicks = 0
  /\ srvOwners = <<>> /\ srvOpen = {} /\ srvSent = <<>>

InitCollide ==
  /\ \E len \in 2..MaxBodies : \E c \in CollideChoices(len) : gameObjects = CollideWorld(c)
  /\ wormholes = WormholesOf(gameObjects)
  /\ playerRef = NullBody /\ playerAliased = TRUE
  /\ keys = {} /\ gravityPullActive = FALSE
  /\ spaceActivities = <<>> /\ cosmicEvents = <<>> /\ spawned = 0 /\ score = 0
  /\ gameState = "playing" /\ frameCount = SnapshotFrame
  /\ pc = "collide" /\ idx = 0 /\ pairI = 1 /\ pairJ = 2
  /\ toRemove = <<>> /\ scoreIncrease = 0
  /\ pre = gameObjects /\ contacts = {}
  /\ last = Did("activities", 0)
  /\ activeDirections = {} /\ touches = 0 /\ isPaused = FALSE /\ rafQueue = <<>>
  /\ effectDeps = <<"playing", FALSE>>
  /\ NoNet

NextCollide == StepCollide \/ TickEnd

SpecCollide == InitCollide /\ [][NextCollide]_vars

\* ---------------------------------------------------------------- the server and the socket
\* The server runs beside the client; the model lets it step between the client's
\* callbacks, where alone the client can see what it did.

MaxConnections == 2
MaxServerTicks == 1

\* playerId of the n-th connection
PlayerIdOf(n) == <<"p1", "p2", "p3", "p4">>[n]

\* the connection of the modelled client's socket: the last the server accepted
ClientSocket == Len(srvSent)

\* player.gameState as the connection handler makes it
NewServerPlayer(id) ==
  Body(id, "player", 0, 0, 0, 0, 8 * MassScale, 6 * PosScale,
       TRUE, 80 * EnergyScale, 120 * EnergyScale, FALSE, 0)

\* a message of the server; players and objects are lists of bodies
ServerMessage(type, playerId, players, objects) ==
  [parses |-> TRUE, type |-> type, playerId |-> playerId, players |-> players,
   objects |-> objects]

\* the place in gameObjects of players.get(playerId).gameState
GameStateOf(owners, playerId) ==
  CHOOSE n \in Indices(owners) : owners[n] = playerId

\* Array.from(this.players.values()).map(p => p.gameState)
GameStates(players, objects, owners) ==
  [n \in Indices(players) |-> objects[GameStateOf(owners, players[n])]]

\* broadcast(message, excludePlayerId): to every Player of the map whose id (the map
\* key) is not the excluded one and whose socket is open
broadcast_ToAll(sent, players, open, message, excludePlayerId) ==
  [k \in Indices(sent) |->
     IF Includes(players, PlayerIdOf(k)) /\ k \in open
     THEN Append(sent[k], message) ELSE sent[k]]

broadcast(sent, players, open, message, excludePlayerId) ==
  [k \in Indices(sent) |->
     IF Includes(players, PlayerIdOf(k)) /\ PlayerIdOf(k) # excludePlayerId /\ k \in open
     THEN Append(sent[k], message) ELSE sent[k]]

\* wss.on('connection') with the player registered only after the init message
OnConnection_InitFirst(n) ==
  LET playerId == PlayerIdOf(n)
      body     == NewServerPlayer(playerId)
      players  == Append(srvPlayers, playerId)
      objects  == Append(srvObjects, body)
      owners   == Append(srvOwners, playerId)
      open     == srvOpen \cup {n}
      init     == ServerMessage("init", playerId,
                                GameStates(srvPlayers, srvObjects, srvOwners), srvObjects)
      joined   == ServerMessage("playerJoined", "", <<body>>, <<>>)
  IN [players |-> players, objects |-> objects, owners |-> owners, open |-> open,
      sent |-> broadcast(Append(srvSent, <<init>>), players, open, joined, playerId)]

\* wss.on('connection') for the n-th connection: the Player and its gameState, the
\* init message to the new socket, playerJoined to the others
OnConnection(n) ==
  LET playerId == PlayerIdOf(n)
      body     == NewServerPlayer(playerId)
      players  == Append(srvPlayers, playerId)
      objects  == Append(srvObjects, body)
      owners   == Append(srvOwners, playerId)
      open     == srvOpen \cup {n}
      init     == ServerMessage("init", playerId, GameStates(players, objects, owners), objects)
      joined   == ServerMessage("playerJoined", "", <<body>>, <<>>)
  IN [players |-> players, objects |-> objects, owners |-> owners, open |-> open,
      sent |-> broadcast(Append(srvSent, <<init>>), players, open, joined, playerId)]

\* the messages sent on connection n by a step of the server
Arrivals(before, after, n) ==
  IF n > Len(after) THEN <<>>
  ELSE SubSeq(after[n], (IF n > Len(before) THEN 0 ELSE Len(before[n])) + 1, Len(after[n]))

\* wss.on('connection') on the server, ws.onopen on the client
Connect ==
  /\ pc = "idle" /\ ~wsOpen /\ wsPending = PendingSocket /\ Len(srvSent) < MaxConnections
  /\ LET r == OnConnection(Len(srvSent) + 1)
     IN /\ srvPlayers' = r.players /\ srvObjects' = r.objects /\ srvOwners' = r.owners
        /\ srvOpen' = r.open /\ srvSent' = r.sent
        /\ toClient' = toClient \o Arrivals(srvSent, r.sent, Len(r.sent))
  /\ wsOpen' = TRUE /\ wsPending' = NoPending
  /\ UNCHANGED clientVars
  /\ UNCHANGED <<toServer, srvTicks>>

\* handleGravityPull(player, action): its body is empty
handleGravityPull(playerId, action) == srvObjects

\* handlePlayerAction(playerId, action): action.type throws for a message without an
\* action, and ws.on('message') catches it
handlePlayerAction(playerId, action) ==
  IF ~action.present THEN srvObjects
  ELSE IF action.type = "gravityPull" THEN handleGravityPull(playerId, action)
  ELSE srvObjects

\* ws.on('message'): JSON.parse, whose exception is caught, then
\* handlePlayerMessage(playerId, data): Object.assign(player.gameState, data.state)
\* writes every field the client sent, id included, into the object that is also in
\* gameObjects; an action message changes nothing (handleGravityPull is empty)
OnMessage_AssignsAnyType(playerId, data) ==
  IF ~data.parses \/ ~Includes(srvPlayers, playerId) THEN srvObjects
  ELSE [srvObjects EXCEPT ![GameStateOf(srvOwners, playerId)] = data.state]

OnMessage(playerId, data) ==
  IF ~data.parses THEN srvObjects
  ELSE IF ~Includes(srvPlayers, playerId) THEN srvObjects
  ELSE IF data.type = "update"
       THEN [srvObjects EXCEPT ![GameStateOf(srvOwners, playerId)] = data.state]
       ELSE IF data.type = "action" THEN handlePlayerAction(playerId, data.action)
       ELSE srvObjects

\* ws.on('message') for the modelled client's connection
handlePlayerMessage ==
  /\ pc = "idle" /\ toServer # <<>> /\ srvPlayers # <<>>
  /\ srvObjects' = OnMessage(PlayerIdOf(ClientSocket), Head(toServer))
  /\ toServer' = Tail(toServer)
  /\ UNCHANGED clientVars
  /\ UNCHANGED <<wsOpen, wsPending, toClient, srvPlayers, srvTicks, srvOwners, srvOpen, srvSent>>

\* updateGameState(deltaTime) for deltaTime = 0.016: the gameState of every Player of
\* the map, and every entry of gameObjects whose type is not "player", moves and slows
updateGameState(objs, owners, players) ==
  [n \in Indices(objs) |->
     IF Includes(players, owners[n]) \/ objs[n].type # "player"
     THEN [objs[n] EXCEPT !.x = objs[n].x + PerFrame(objs[n].vx),
                          !.y = objs[n].y + PerFrame(objs[n].vy),
                          !.vx = Quot(objs[n].vx * 998, 1000),
                          !.vy = Quot(objs[n].vy * 998, 1000)]
     ELSE objs[n]]

\* GameServer.gameLoop: updateGameState, then the gameState broadcast
ServerGameLoop ==
  /\ pc = "idle" /\ srvTicks < MaxServerTicks /\ srvPlayers # <<>>
  /\ srvTicks' = srvTicks + 1
  /\ srvObjects' = updateGameState(srvObjects, srvOwners, srvPlayers)
  /\ srvSent' = broadcast(srvSent, srvPlayers, srvOpen,
                          ServerMessage("gameState", "",
                                        GameStates(srvPlayers, srvObjects', srvOwners),
                                        srvObjects'), "")
  /\ toClient' = IF wsOpen THEN toClient \o Arrivals(srvSent, srvSent', ClientSocket)
                 ELSE toClient
  /\ UNCHANGED clientVars
  /\ UNCHANGED <<wsOpen, wsPending, toServer, srvPlayers, srvOwners, srvOpen>>

\* ws.onmessage: JSON.parse, whose exception is caught, then handleServerMessage(data):
\* for init and for gameState, gameObjectsRef.current = objects; playerRef.current
\* keeps the object it held
onmessage(data) ==
  IF data.parses /\ data.type \in {"init", "gameState"}
  THEN /\ gameObjects' = data.objects
       /\ playerRef' = PlayerRefBody
       /\ playerAliased' = FALSE
       /\ wormholes' = [n \in Indices(wormholes) |-> [wormholes[n] EXCEPT !.live = FALSE]]
  ELSE UNCHANGED <<gameObjects, playerRef, playerAliased, wormholes>>

\* handleServerMessage(data): the list that setOtherPlayers is given or computes
\* from prev.  The filter of a gameState message compares with playerRef.current?.id.
setOtherPlayers(data, prev) ==
  IF ~data.parses THEN prev
  ELSE IF data.type = "init"
       THEN SelectSeq(data.players, LAMBDA p : p.id # data.playerId)
  ELSE IF data.type = "gameState"
       THEN SelectSeq(data.players, LAMBDA p : p.id # PlayerRefBody.id)
  ELSE IF data.type = "playerJoined" THEN prev \o data.players
  ELSE IF data.type = "playerLeft"
       THEN SelectSeq(prev, LAMBDA p : p.id # data.playerId)
  ELSE prev

\* the next message of the server reaches the client
handleServerMessage ==
  /\ pc = "idle" /\ toClient # <<>>
  /\ onmessage(Head(toClient))
  /\ otherPlayers' = setOtherPlayers(Head(toClient), otherPlayers)
  /\ last' = IF Head(toClient).type \in {"init", "gameState"}
             THEN Did(Head(toClient).type, 0) ELSE last
  /\ toClient' = Tail(toClient)
  /\ UNCHANGED <<keys, gravityPullActive, spaceActivities, cosmicEvents, spawned, score, gameState, frameCount,
                 pc, idx, pairI, pairJ, toRemove, scoreIncrease, pre, contacts>>
  /\ UNCHANGED <<activeDirections, touches, isPaused, rafQueue, effectDeps>>
  /\ UNCHANGED <<wsOpen, wsPending, toServer, srvPlayers, srvObjects, srvTicks, srvOwners, srvOpen, srvSent>>

\* ---------------------------------------------------------------- frames no handler knows

\* a body list a frame may carry
FrameBodies == <<NewServerPlayer("p4")>>

\* text that reaches the client and is not a message of the server: not JSON, JSON
\* without a type, JSON with a type the client has no case for
BadServerFrames ==
  {[ServerMessage("gameState", "", FrameBodies, FrameBodies) EXCEPT !.parses = FALSE],
   ServerMessage("", "", FrameBodies, FrameBodies),
   ServerMessage("ping", "", FrameBodies, FrameBodies)}

\* text that reaches the server and is not a message of the client: not JSON, JSON
\* without a type or with an unknown one, an action message without an action, with an
\* action without a type, with an action of an unknown type
BadClientFrames ==
  {[ClientMessage("update", FrameBodies[1], NoAction) EXCEPT !.parses = FALSE],
   ClientMessage("", FrameBodies[1], NoAction),
   ClientMessage("move", FrameBodies[1], NoAction),
   ClientMessage("action", FrameBodies[1], NoAction),
   ClientMessage("action", FrameBodies[1], PlayerAction("", TRUE)),
   ClientMessage("action", FrameBodies[1], PlayerAction("boost", TRUE))}

\* ws.onmessage on the client for such a frame
BadServerFrame ==
  /\ pc = "idle" /\ wsOpen
  /\ \E data \in BadServerFrames : onmessage(data)
  /\ last' = Did("badServerFrame", 0)
  /\ UNCHANGED <<keys, gravityPullActive, spaceActivities, cosmicEvents, spawned, score, gameState, frameCount,
                 pc, idx, pairI, pairJ, toRemove, scoreIncrease, pre, contacts>>
  /\ UNCHANGED <<activeDirections, touches, isPaused, rafQueue, effectDeps>>
  /\ UNCHANGED netVars
  /\ UNCHANGED otherPlayers

\* ws.on('message') on the server for such a frame, on the modelled client's connection
BadClientFrame ==
  /\ pc = "idle" /\ wsOpen
  /\ \E data \in BadClientFrames : srvObjects' = OnMessage(PlayerIdOf(ClientSocket), data)
  /\ last' = Did("badClientFrame", 0)
  /\ UNCHANGED <<gameObjects, wormholes, playerRef, playerAliased, keys, gravityPullActive, spaceActivities,
                 cosmicEvents, spawned, score, gameState, frameCount, pc, idx, pairI, pairJ, toRemove,
                 scoreIncrease, pre, contacts>>
  /\ UNCHANGED <<activeDirections, touches, isPaused, rafQueue, effectDeps>>
  /\ UNCHANGED <<wsOpen, wsPending, toServer, toClient, srvPlayers, srvTicks, srvOwners, srvOpen, srvSent>>
  /\ UNCHANGED otherPlayers

\* ---------------------------------------------------------------- the client's socket

\* setTimeout(connectWebSocket, 5000) in ws.onclose
RECONNECT_DELAY == 5000

\* ws.onclose schedules the next attempt, whether the socket had opened or not
ScheduleReconnect_OnlyAfterOpen(wasOpen) ==
  IF wasOpen THEN PendingTimer(RECONNECT_DELAY) ELSE NoPending

ScheduleReconnect(wasOpen) == PendingTimer(RECONNECT_DELAY)

\* the client's socket closes, or fails to open: ws.onclose; the server's end of the
\* connection is closed too, and what was in flight to the client is lost
onclose ==
  /\ pc = "idle" /\ (wsOpen \/ wsPending = PendingSocket)
  /\ wsOpen' = FALSE
  /\ wsPending' = ScheduleReconnect(wsOpen)
  /\ srvOpen' = IF wsOpen THEN srvOpen \ {ClientSocket} ELSE srvOpen
  /\ toClient' = <<>>
  /\ UNCHANGED clientVars
  /\ UNCHANGED <<toServer, srvPlayers, srvObjects, srvTicks, srvOwners, srvSent>>

\* the timeout fires: connectWebSocket makes a new socket
connectWebSocket ==
  /\ pc = "idle" /\ wsPending.kind = "timer"
  /\ wsPending' = PendingSocket
  /\ UNCHANGED clientVars
  /\ UNCHANGED <<wsOpen, toServer, toClient, srvPlayers, srvObjects, srvTicks, srvOwners, srvOpen, srvSent>>

\* the most messages waiting for the server at which the model still touches the pull
\* button
MaxInFlight == 2

\* handleMobileGravityPull(active), from the touch button
handleMobileGravityPull(active) ==
  /\ pc = "idle" /\ gameState = "playing" /\ Len(toServer) < MaxInFlight
  /\ gravityPullActive' = active
  /\ toServer' = IF active
                 THEN toServer \o sendPlayerAction(wsOpen, PlayerAction("gravityPull", TRUE))
                 ELSE toServer
  /\ last' = Did("touchPull", 0)
  /\ UNCHANGED <<gameObjects, wormholes, playerRef, playerAliased, keys, spaceActivities,
                 cosmicEvents, spawned, score, gameState, frameCount, pc, idx, pairI, pairJ, toRemove,
                 scoreIncrease, pre, contacts>>
  /\ UNCHANGED <<activeDirections, touches, isPaused, rafQueue, effectDeps>>
  /\ UNCHANGED <<wsOpen, wsPending, toClient, srvPlayers, srvObjects, srvTicks, srvOwners, srvOpen, srvSent>>
  /\ UNCHANGED otherPlayers

\* ---------------------------------------------------------------- the server and its connections

MaxPeers == 2

\* handlePlayerDisconnect(playerId): the Player leaves the map, gameObjects keeps the
\* entries whose id is not playerId, playerLeft goes to the Players left
OnDisconnect(playerId) ==
  IF ~Includes(srvPlayers, playerId)
  THEN [players |-> srvPlayers, objects |-> srvObjects, owners |-> srvOwners, sent |-> srvSent]
  ELSE LET players == SelectSeq(srvPlayers, LAMBDA id : id # playerId)
           kept    == {n \in Indices(srvObjects) : srvObjects[n].id # playerId}
           place(n) == Cardinality({m \in kept : m <= n})
           count   == Cardinality(kept)
       IN [players |-> players,
           objects |-> [m \in 1..count |-> srvObjects[CHOOSE n \in kept : place(n) = m]],
           owners  |-> [m \in 1..count |-> srvOwners[CHOOSE n \in kept : place(n) = m]],
           sent    |-> broadcast(srvSent, players, srvOpen,
                                 ServerMessage("playerLeft", playerId, <<>>, <<>>), "")]

\* the state a client sends in an update: playerRef.current, whose id is "player";
\* as initGame made it, and grown by an absorption
PeerStates ==
  {[NewPlayer EXCEPT !.x = 3 * PosScale, !.vx = PosScale],
   [NewPlayer EXCEPT !.mass = 12 * MassScale,
                     !.radius = calculateRadius(12 * MassScale, "player")]}

\* what a client sends: sendPlayerUpdate, sendPlayerAction
PeerMessages ==
  {ClientMessage("update", s, NoAction) : s \in PeerStates}
    \cup {ClientMessage("action", NullBody, PlayerAction("gravityPull", TRUE))}

\* a client connects: wss.on('connection')
PeerConnect ==
  /\ pc = "idle" /\ Len(srvSent) < MaxPeers
  /\ LET r == OnConnection(Len(srvSent) + 1)
     IN /\ srvPlayers' = r.players /\ srvObjects' = r.objects /\ srvOwners' = r.owners
        /\ srvOpen' = r.open /\ srvSent' = r.sent
  /\ UNCHANGED clientVars
  /\ UNCHANGED <<wsOpen, wsPending, toServer, toClient, srvTicks>>

\* ws.on('message') for connection n
PeerMessage(n) ==
  /\ pc = "idle" /\ n \in srvOpen
  /\ \E data \in PeerMessages : srvObjects' = OnMessage(PlayerIdOf(n), data)
  /\ UNCHANGED clientVars
  /\ UNCHANGED <<wsOpen, wsPending, toServer, toClient, srvPlayers, srvTicks, srvOwners, srvOpen, srvSent>>

\* the socket of connection n closes: its readyState is no longer OPEN
PeerClose(n) ==
  /\ pc = "idle" /\ n \in srvOpen
  /\ srvOpen' = srvOpen \ {n}
  /\ UNCHANGED clientVars
  /\ UNCHANGED <<wsOpen, wsPending, toServer, toClient, srvPlayers, srvObjects, srvTicks, srvOwners, srvSent>>

\* ws.on('close') for connection n -> handlePlayerDisconnect(playerId)
handlePlayerDisconnect(n) ==
  /\ pc = "idle" /\ n \in Indices(srvSent) /\ n \notin srvOpen
  /\ Includes(srvPlayers, PlayerIdOf(n))
  /\ LET r == OnDisconnect(PlayerIdOf(n))
     IN /\ srvPlayers' = r.players /\ srvObjects' = r.objects /\ srvOwners' = r.owners
        /\ srvSent' = r.sent
  /\ UNCHANGED clientVars
  /\ UNCHANGED <<wsOpen, wsPending, toServer, toClient, srvTicks, srvOpen>>

\* the page before initGame: the menu
Menu ==
  /\ gameObjects = <<>> /\ wormholes = <<>>
  /\ playerRef = NullBody /\ playerAliased = FALSE
  /\ keys = {} /\ gravityPullActive = FALSE
  /\ spaceActivities = <<>> /\ cosmicEvents = <<>> /\ spawned = 0 /\ score = 0
  /\ gameState = "menu" /\ frameCount = 0
  /\ pc = "idle" /\ idx = 0 /\ pairI = 0 /\ pairJ = 0
  /\ toRemove = <<>> /\ scoreIncrease = 0
  /\ pre = <<>> /\ contacts = {}
  /\ last = Did("menu", 0)
  /\ activeDirections = {} /\ touches = 0 /\ isPaused = FALSE /\ rafQueue = <<>>
  /\ effectDeps = <<"menu", FALSE>>

InitServer == Menu /\ NoNet

NextServer ==
  \/ PeerConnect
  \/ \E n \in 1..MaxPeers : PeerMessage(n)
  \/ \E n \in 1..MaxPeers : PeerClose(n)
  \/ \E n \in 1..MaxPeers : handlePlayerDisconnect(n)
  \/ ServerGameLoop

SpecServer == InitServer /\ [][NextServer]_vars

\* ---------------------------------------------------------------- the session

MaxOthers == 2

\* the player as a session has left it: as initGame made it; grown by absorptions;
\* with little energy left; with absorptionProgress at 1; near full speed
PlayerKinds == {"fresh", "grown", "drained", "risked", "fast"}

SessionPlayer(kind) ==
  CASE kind = "fresh"   -> NewPlayer
    [] kind = "grown"   -> [NewPlayer EXCEPT !.mass = 30 * MassScale,
                                             !.radius = calculateRadius(30 * MassScale, "player")]
    [] kind = "drained" -> [NewPlayer EXCEPT !.energy = 3 * (EnergyScale \div 100)]
    [] kind = "risked"  -> [NewPlayer EXCEPT !.absorptionProgress = ProgScale]
    [] kind = "fast"    -> [NewPlayer EXCEPT !.vx = MAX_VELOCITY - 1]

\* the bodies around the player, in the order the generators pushed them
OtherKinds == <<"debris", "comet", "ai", "spacestation">>

SessionBody(n) ==
  CASE OtherKinds[n] = "debris" -> NewInert("o1", "debris", 9 * PosScale, 0, -2 * PosScale, 0,
                                            2 * MassScale)
    [] OtherKinds[n] = "comet"  -> NewInert("o2", "comet", 15 * PosScale, 0, -MAX_VELOCITY, 0,
                                            5 * MassScale)
    [] OtherKinds[n] = "ai"     -> NewAI("o3", 100 * PosScale, 0, 0, 0,
                                         30 * MassScale + 303, 50 * EnergyScale)
    [] OtherKinds[n] = "spacestation" ->
         NewGlowing("o4", "spacestation", 0, -30 * PosScale, 20 * MassScale)

\* the bodies of the set chosen, in the order of OtherKinds
RECURSIVE SessionBodies(_, _)
SessionBodies(chosen, n) ==
  IF n = 0 THEN <<>>
  ELSE IF n \in chosen THEN Append(SessionBodies(chosen, n - 1), SessionBody(n))
       ELSE SessionBodies(chosen, n - 1)

\* an energyCrystal as generateSpaceActivities makes it, a tick's flight away
Crystal ==
  [id |-> "a1", type |-> "energyCrystal", x |-> 24 * PosScale, y |-> 0, radius |-> 15 * PosScale,
   discovered |-> FALSE, reward |-> 75]

\* a session at SnapshotFrame, not connected: one of the players of kinds with at
\* most `most` of the bodies of OtherKinds around it
Session(kinds, most) ==
  /\ \E kind \in kinds :
       \E chosen \in SUBSET (1..Len(OtherKinds)) :
          /\ Cardinality(chosen) <= most
          /\ gameObjects = <<SessionPlayer(kind)>> \o SessionBodies(chosen, Len(OtherKinds))
  /\ wormholes = WormholesOf(gameObjects)
  /\ playerRef = NullBody /\ playerAliased = TRUE
  /\ keys = {} /\ gravityPullActive = FALSE
  /\ spaceActivities = <<Crystal>> /\ cosmicEvents = <<>> /\ spawned = 0 /\ score = 0
  /\ gameState = "playing" /\ frameCount = SnapshotFrame
  /\ pc = "idle" /\ idx = 0 /\ pairI = 0 /\ pairJ = 0
  /\ toRemove = <<>> /\ scoreIncrease = 0
  /\ pre = gameObjects /\ contacts = {}
  /\ last = Did("initGame", 0)
  /\ activeDirections = {} /\ touches = 0 /\ isPaused = FALSE /\ rafQueue = <<TRUE>>
  /\ effectDeps = <<"playing", FALSE>>
  /\ NoNet

\* the client's callbacks: the tick and the key events
NextClient ==
  \/ TickStart
  \/ StepUpdateAI
  \/ StepApplyGravity
  \/ StepOrbital
  \/ StepUpdateEnergy
  \/ StepIntegrate
  \/ StepActivities
  \/ StepCollide
  \/ TickEnd
  \/ LoopEffect
  \/ \E key \in ModelKeys : handleKeyDown(key)
  \/ \E key \in ModelKeys : handleKeyUp(key)

\* a client whose socket never opens
InitClient == Session(PlayerKinds, MaxOthers)

SpecClient == InitClient /\ [][NextClient]_vars

\* the client, the socket and the server
MaxOthersOnline == 1

Init == Session({"fresh"}, MaxOthersOnline)

Next ==
  \/ NextClient
  \/ Connect
  \/ handlePlayerMessage
  \/ ServerGameLoop
  \/ handleServerMessage

Spec == Init /\ [][Next]_vars

\* ---------------------------------------------------------------- the session and its socket

\* a player alone in its session
InitWire == Session({"fresh"}, 0)

\* the tick of InitWire's session: it has no AI body
TickWire ==
  \/ TickStart
  \/ StepApplyGravity
  \/ StepOrbital
  \/ StepUpdateEnergy
  \/ StepIntegrate
  \/ StepActivities
  \/ StepCollide
  \/ TickEnd

\* the socket opens once, and frames of any kind arrive at both ends
NextFrames ==
  \/ TickWire
  \/ Connect
  \/ handlePlayerMessage
  \/ ServerGameLoop
  \/ handleServerMessage
  \/ BadServerFrame
  \/ BadClientFrame

SpecFrames == InitWire /\ [][NextFrames]_vars

\* the socket closes, or fails to open, and is made anew
NextReconnect ==
  \/ TickWire
  \/ Connect
  \/ onclose
  \/ connectWebSocket
  \/ handlePlayerMessage
  \/ \E n \in 1..MaxConnections : handlePlayerDisconnect(n)

\* a callback that has started returns: the thread is idle again and again
CallbacksReturn == []<>(pc = "idle")

\* callbacks return, and a timeout that is set fires
SpecReconnect ==
  InitWire /\ [][NextReconnect]_vars /\ CallbacksReturn /\ WF_vars(connectWebSocket)

\* the pull is toggled by key and by touch
NextPull ==
  \/ TickWire
  \/ Connect
  \/ handlePlayerMessage
  \/ handleKeyDown(" ")
  \/ handleKeyUp(" ")
  \/ \E active \in BOOLEAN : handleMobileGravityPull(active)

SpecPull == InitWire /\ [][NextPull]_vars

\* ---------------------------------------------------------------- updateAI alone

\* the AI body updateAI is called for, 1000 to the right of the player: without
\* energy, low on it, well supplied; under the cap of passive growth, one growth step
\* under it, at it, and above it after an absorption
AIEnergies == {0, 20 * EnergyScale, 50 * EnergyScale}
AIMasses == {30 * MassScale, AI_MAX_MASS - 1, AI_MAX_MASS, 45 * MassScale}

\* the bodies around it: a glowing station (smaller) at 100, a glowing star (larger) at
\* 250, a planet (larger) at 100, debris (smaller) at 80, a planet (larger) at 400
AINeighbours ==
  <<NewGlowing("n1", "spacestation", 1100 * PosScale, 0, 20 * MassScale),
    NewGlowing("n2", "star", 1000 * PosScale, 250 * PosScale, 120 * MassScale),
    NewInert("n3", "planet", 900 * PosScale, 0, 0, 0, 60 * MassScale),
    NewInert("n4", "debris", 1000 * PosScale, -80 * PosScale, 0, 0, 2 * MassScale),
    NewInert("n5", "planet", 1000 * PosScale, 400 * PosScale, 0, 0, 60 * MassScale)>>

\* the neighbours of the set chosen, in the order of AINeighbours
RECURSIVE AIBodies(_, _)
AIBodies(chosen, n) ==
  IF n = 0 THEN <<>>
  ELSE IF n \in chosen THEN Append(AIBodies(chosen, n - 1), AINeighbours[n])
       ELSE AIBodies(chosen, n - 1)

\* a tick that has dealt with the player and is about to call updateAI for the AI body
InitAI ==
  /\ \E energy \in AIEnergies, mass \in AIMasses, chosen \in SUBSET Indices(AINeighbours) :
       gameObjects = <<NewPlayer, NewAI("a1", 1000 * PosScale, 0, 0, 0, mass, energy)>>
                       \o AIBodies(chosen, Len(AINeighbours))
  /\ wormholes = <<>>
  /\ playerRef = NullBody /\ playerAliased = TRUE
  /\ keys = {} /\ gravityPullActive = FALSE
  /\ spaceActivities = <<>> /\ cosmicEvents = <<>> /\ spawned = MaxSpawned /\ score = 0
  /\ gameState = "playing" /\ frameCount = SnapshotFrame + 1
  /\ pc = "updateAI" /\ idx = 2 /\ pairI = 0 /\ pairJ = 0
  /\ toRemove = <<>> /\ scoreIncrease = 0
  /\ pre = gameObjects /\ contacts = {}
  /\ last = Did("integrate", 1)
  /\ activeDirections = {} /\ touches = 0 /\ isPaused = FALSE /\ rafQueue = <<>>
  /\ effectDeps = <<"playing", FALSE>>
  /\ NoNet

SpecAI == InitAI /\ [][StepUpdateAI]_vars

\* ---------------------------------------------------------------- the session on a touch device

MaxGlowing == 2

\* the player of such a session: as initGame made it; with absorptionProgress at 1;
\* with no energy left after the last tick's decay
MobilePlayers == {"fresh", "risked", "spent"}

MobilePlayer(kind) ==
  IF kind = "spent" THEN [NewPlayer EXCEPT !.energy = 0] ELSE SessionPlayer(kind)

\* glowing bodies around the player: a space station and a white dwarf with the
\* player in their bands, a star far from it
GlowingKinds == {"spacestation", "whitedwarf", "star"}

GlowingBody(kind) ==
  CASE kind = "spacestation" -> NewGlowing("g1", "spacestation", 0, -30 * PosScale, 20 * MassScale)
    [] kind = "whitedwarf"   -> NewGlowing("g2", "whitedwarf", 0, 45 * PosScale, 40 * MassScale)
    [] kind = "star"         -> NewGlowing("g3", "star", 300 * PosScale, 0, 120 * MassScale)

\* the lists of at most MaxGlowing of them, in any order
GlowingLists ==
  UNION { { c \in [1..len -> GlowingKinds] : \A m, n \in 1..len : c[m] = c[n] => m = n }
          : len \in 0..MaxGlowing }

InitMobile ==
  /\ \E kind \in MobilePlayers : \E c \in GlowingLists :
       gameObjects = <<MobilePlayer(kind)>> \o [n \in DOMAIN c |-> GlowingBody(c[n])]
  /\ wormholes = <<>>
  /\ playerRef = NullBody /\ playerAliased = TRUE
  /\ keys = {} /\ gravityPullActive = FALSE
  /\ spaceActivities = <<>> /\ cosmicEvents = <<>> /\ spawned = MaxSpawned /\ score = 0
  /\ gameState = "playing" /\ frameCount = SnapshotFrame
  /\ pc = "idle" /\ idx = 0 /\ pairI = 0 /\ pairJ = 0
  /\ toRemove = <<>> /\ scoreIncrease = 0
  /\ pre = gameObjects /\ contacts = {}
  /\ last = Did("initGame", 0)
  /\ activeDirections = {} /\ touches = 0 /\ isPaused = FALSE /\ rafQueue = <<TRUE>>
  /\ effectDeps = <<"playing", FALSE>>
  /\ NoNet

\* the callbacks of a touch device: the tick, the direction buttons, pause and resume
NextMobile ==
  \/ TickStart
  \/ StepApplyGravity
  \/ StepOrbital
  \/ StepUpdateEnergy
  \/ StepIntegrate
  \/ StepActivities
  \/ StepCollide
  \/ TickEnd
  \/ LoopEffect
  \/ \E key \in {"d"} : handleKeyDown(key)
  \/ \E key \in {"d"} : handleKeyUp(key)
  \/ \E direction \in ModelDirections : handleDirectionStart(direction)
  \/ \E direction \in ModelDirections : handleDirectionEnd(direction)
  \/ handlePause

SpecMobile == InitMobile /\ [][NextMobile]_vars

\* ================================================================ properties

\* a step of handleCollisions' inner loop was taken
CollideStepTaken ==
  pc = "collide" /\ (pc' # "collide" \/ pairI' # pairI \/ pairJ' # pairJ)

InContact(a, b) == Dist2(a, b) < (a.radius + b.radius) * (a.radius + b.radius)

\* the body at index k is in the collection after the removals
Survives(k) == ~Includes(toRemove, pre[k].id)

RECURSIVE MassSum(_)
MassSum(objs) == IF objs = <<>> THEN 0 ELSE Head(objs).mass + MassSum(Tail(objs))

\* ---------------------------------------------------------------- C1
\* C1: when handleCollisions evaluates a pair of non-glowing bodies in contact with
\* different masses, the larger body's mass becomes its mass + 0.8 x the smaller
\* body's mass, the smaller body's id is appended to toRemove, and scoreIncrease
\* grows by floor(smaller mass x 20) when the larger body is the player (and is
\* unchanged otherwise); masses 10 and 2 give 11.6 and +40.
C1_AbsorbLargerTakesSmaller ==
  [][ (CollideStepTaken
       /\ ~gameObjects[pairI].isGlowing /\ ~gameObjects[pairJ].isGlowing
       /\ InContact(gameObjects[pairI], gameObjects[pairJ])
       /\ gameObjects[pairI].mass # gameObjects[pairJ].mass)
      => LET li == IF gameObjects[pairI].mass > gameObjects[pairJ].mass THEN pairI ELSE pairJ
             si == IF li = pairI THEN pairJ ELSE pairI
             m  == gameObjects[si].mass
         IN /\ gameObjects'[li].mass = gameObjects[li].mass + (8 * m) \div 10
            /\ gameObjects'[si].mass = m
            /\ toRemove' = Append(toRemove, gameObjects[si].id)
            /\ scoreIncrease' = scoreIncrease
                 + (IF gameObjects[li].id = "player" THEN (20 * m) \div MassScale ELSE 0)
    ]_vars

\* a player of mass 10 has absorbed a body of mass 2: mass 11.6, score +40
C1_Witness ==
  /\ last.op = "absorb" /\ gameObjects[last.k].id = "player"
  /\ pre[last.k].mass = 10 * MassScale /\ pre[last.smaller].mass = 2 * MassScale
  /\ gameObjects[last.k].mass = 116 * (MassScale \div 10)
  /\ scoreIncrease = 40
  /\ Includes(toRemove, pre[last.smaller].id)

\* ---------------------------------------------------------------- C2
\* the bodies of before that are still in after have not lost mass
NoMassLost(before, after) ==
  \A k \in Indices(before) : \A m \in Indices(after) :
     before[k].id = after[m].id => after[m].mass >= before[k].mass

\* C2: in the client's and in the server's collection the mass of the body with a
\* given id never decreases from a state in which the id is in the collection to the
\* next such state.  Once a sync message has replaced the client's list,
\* playerRef.current is the player's body as it last was in the collection.
C2_MassNeverDecreases ==
  [][ /\ NoMassLost(gameObjects, gameObjects')
      /\ NoMassLost(srvObjects, srvObjects')
      /\ (~playerAliased' /\ playerRef'.id = "player" /\ FindPlayer(gameObjects') # 0)
         => gameObjects'[FindPlayer(gameObjects')].mass >= playerRef'.mass
    ]_vars

\* a gameState message has put back a player body lighter than the one the client had
C2_Witness ==
  /\ last.op = "gameState" /\ ~playerAliased /\ playerRef.id = "player"
  /\ FindPlayer(gameObjects) # 0
  /\ gameObjects[FindPlayer(gameObjects)].mass < playerRef.mass

\* ---------------------------------------------------------------- C3
\* C3: in every state of the client every body's radius is calculateRadius of its
\* mass and type: at creation, after an absorption in handleCollisions and after
\* the growth of an AI in updateAI.
C3_RadiusFollowsMass ==
  \A k \in Indices(gameObjects) :
     gameObjects[k].radius = calculateRadius(gameObjects[k].mass, gameObjects[k].type)

\* a pass has ended in which the player absorbed a body and its radius grew, in a
\* tick in which an AI grew and its radius grew
C3_Witness ==
  /\ pc = "finish"
  /\ \E k \in Indices(gameObjects) :
       /\ gameObjects[k].id = "player"
       /\ gameObjects[k].mass > pre[k].mass /\ gameObjects[k].radius > pre[k].radius
  /\ \E k \in Indices(gameObjects) :
       /\ gameObjects[k].type = "ai"
       /\ gameObjects[k].mass = 30 * MassScale + 303 + AI_GROWTH_RATE
       /\ gameObjects[k].radius > calculateRadius(30 * MassScale + 303, "ai")

\* ---------------------------------------------------------------- C4
\* C4: every body that has energy has 0 <= energy <= maxEnergy after each operation
\* that changes energy (updateEnergy, the absorption transfer, the gravity-pull cost
\* in applyGravity, the energyCrystal refill), so in every state.
C4_EnergyWithinBounds ==
  /\ \A k \in Indices(gameObjects) :
       gameObjects[k].hasEnergy
       => (0 <= gameObjects[k].energy /\ gameObjects[k].energy <= gameObjects[k].maxEnergy)
  /\ playerRef.hasEnergy => (0 <= playerRef.energy /\ playerRef.energy <= playerRef.maxEnergy)

\* ---------------------------------------------------------------- C5
SpeedSquared(obj) == obj.vx * obj.vx + obj.vy * obj.vy

\* C5: when a body's position is about to be integrated, after the force steps of its
\* turn in the tick (updateAI, applyGravity, handleOrbitalMechanics), its speed is at
\* most MAX_VELOCITY.
C5_SpeedAtMostMax ==
  pc = "integrate" => SpeedSquared(gameObjects[idx]) <= MAX_VELOCITY * MAX_VELOCITY

\* ---------------------------------------------------------------- C6
\* C6: in a collision pass no glowing body is put in toRemove or changes mass, and a
\* pair in contact of which one body glows changes no mass at all, in either order
\* of the two in the list.
C6_GlowingNeitherAbsorbsNorAbsorbed ==
  [][ CollideStepTaken
      => /\ \A k \in Indices(gameObjects) :
              gameObjects[k].isGlowing
              => /\ gameObjects'[k].mass = gameObjects[k].mass
                 /\ (Len(toRemove') > Len(toRemove)
                     => toRemove'[Len(toRemove')] # gameObjects[k].id)
         /\ (gameObjects[pairI].isGlowing \/ gameObjects[pairJ].isGlowing)
            => /\ \A k \in Indices(gameObjects) : gameObjects'[k].mass = gameObjects[k].mass
               /\ toRemove' = toRemove
    ]_vars

\* a pass has evaluated a contact of a glowing body with a heavier and with a lighter
\* non-glowing body, the glowing body first and second in the list
C6_Witness ==
  /\ pc = "finish"
  /\ \E c \in contacts : pre[c[1]].isGlowing /\ ~pre[c[2]].isGlowing
                         /\ pre[c[1]].mass < pre[c[2]].mass
  /\ \E c \in contacts : ~pre[c[1]].isGlowing /\ pre[c[2]].isGlowing
                         /\ pre[c[1]].mass < pre[c[2]].mass

\* ---------------------------------------------------------------- C7
\* the pair c shares no body with another pair that was in contact in the pass
Alone(c) ==
  \A d \in contacts : d # c => {d[1], d[2]} \cap {c[1], c[2]} = {}

NoDuplicates(s) == \A m \in Indices(s) : \A n \in Indices(s) : s[m] = s[n] => m = n

\* C8: within a pass a body whose id is already in toRemove is skipped in every later
\* pair (the pair changes no body and queues no removal), so at the end of the pass
\* toRemove holds no id twice and the masses of the survivors sum to at most the sum
\* of all masses before the pass.
C8_RemovedBodiesAreSkipped ==
  /\ (pc = "collide" /\ last.op = "absorb")
     => ~(Includes(SubSeq(toRemove, 1, Len(toRemove) - 1), gameObjects[last.i].id)
          \/ Includes(SubSeq(toRemove, 1, Len(toRemove) - 1), gameObjects[last.j].id))
  /\ pc = "finish"
     => /\ NoDuplicates(toRemove)
        /\ MassSum(Survivors(gameObjects, toRemove)) <= MassSum(pre)

\* a pass over three bodies that touch one another has ended with absorptions
C8_Witness ==
  /\ pc = "finish" /\ Len(pre) = 3
  /\ contacts = {<<1, 2>>, <<1, 3>>, <<2, 3>>}
  /\ \A k \in 1..3 : ~pre[k].isGlowing
  /\ Len(toRemove) = 3

\* ---------------------------------------------------------------- C9
\* the pair under evaluation is a player whose absorptionProgress exceeds 1 in
\* contact with a glowing body; p is the player's place in the pair
FatalPair(p, g) ==
  /\ gameObjects[p].type = "player" /\ gameObjects[p].absorptionProgress > ProgScale
  /\ gameObjects[g].isGlowing
  /\ InContact(gameObjects[p], gameObjects[g])

FatalOutcome(p) ==
  /\ gameObjects'[p].energy = 0
  /\ \A k \in Indices(gameObjects) : gameObjects'[k].mass = gameObjects[k].mass
  /\ toRemove' = toRemove

Near(p) ==
  {m \in Indices(gameObjects) :
     /\ gameObjects[m].isGlowing /\ gameObjects[m].id # p.id
     /\ DistLess(Dist2(p, gameObjects[m]), gameObjects[m].radius + p.radius + 50 * PosScale)}

Glowing(p) ==
  {m \in Indices(gameObjects) : gameObjects[m].isGlowing /\ gameObjects[m].id # p.id}

StalledOrbitalStep ==
  /\ pc = "orbital" /\ gameObjects[idx].type = "player"
  /\ keys \cap MovementKeys = {} /\ activeDirections = {}

\* C11: when handleOrbitalMechanics runs for a player who issues no movement input
\* and is in the proximity band of at least one glowing body, absorptionProgress
\* after the call is its value before plus ORBITAL_ABSORPTION_RATE for each glowing
\* body whose band holds the player, whatever other glowing bodies are in the list.
C11_StalledRiskGrowsPerBody ==
  [][ (StalledOrbitalStep /\ Near(gameObjects[idx]) # {})
      => gameObjects'[idx].absorptionProgress
           = gameObjects[idx].absorptionProgress
               + Cardinality(Near(gameObjects[idx])) * ORBITAL_ABSORPTION_RATE
    ]_vars

\* a stalled player in the band of a glowing body has come out of
\* handleOrbitalMechanics with absorptionProgress 0, a farther glowing body being later
\* in the list
C11_Witness ==
  /\ last.op = "orbital" /\ gameObjects[idx].type = "player"
  /\ keys \cap MovementKeys = {} /\ activeDirections = {}
  /\ Near(gameObjects[idx]) # {}
  /\ \E m \in Glowing(gameObjects[idx]) \ Near(gameObjects[idx]) :
        \A n \in Near(gameObjects[idx]) : n < m
  /\ gameObjects[idx].absorptionProgress = 0

\* ---------------------------------------------------------------- C12
\* C12: when handleOrbitalMechanics runs for a player in the proximity band of a
\* glowing body while a movement key is held or a direction button is touched,
\* absorptionProgress does not increase, and it decreases unless it is 0.
C12_MovingRiskDoesNotGrow ==
  [][ (/\ pc = "orbital" /\ gameObjects[idx].type = "player"
       /\ (keys \cap MovementKeys # {} \/ activeDirections # {})
       /\ Near(gameObjects[idx]) # {})
      => /\ gameObjects'[idx].absorptionProgress <= gameObjects[idx].absorptionProgress
         /\ gameObjects[idx].absorptionProgress > 0
            => gameObjects'[idx].absorptionProgress < gameObjects[idx].absorptionProgress
    ]_vars

\* handleOrbitalMechanics has raised the absorptionProgress of a player who touches
\* a direction button and has been pushed by it
C12_Witness ==
  /\ last.op = "orbital" /\ gameObjects[idx].type = "player"
  /\ activeDirections # {} /\ gameObjects[idx].vx > 0
  /\ gameState = "playing" /\ ~isPaused
  /\ gameObjects[idx].absorptionProgress > ProgScale

\* ---------------------------------------------------------------- C13
\* the pair the collision pass is at is a player and a wormhole in contact
PlayerAtWormhole(p, w) ==
  /\ {p, w} = {pairI, pairJ}
  /\ gameObjects[p].type = "player" /\ gameObjects[w].type = "wormhole"
  /\ InContact(gameObjects[p], gameObjects[w])

\* the wormholes of the collection other than the body at index w
OtherWormholes(w) ==
  {n \in Indices(gameObjects) :
     gameObjects[n].type = "wormhole" /\ gameObjects[n].id # gameObjects[w].id}

\* C13: when the collision pass evaluates a player and a wormhole in contact and the
\* collection holds another wormhole, the player is teleported and its velocity is
\* multiplied by 0.5, whichever of the two is first in the list.
C13_TeleportInEitherOrder ==
  [][ CollideStepTaken
      => \A p, w \in {pairI, pairJ} :
           (PlayerAtWormhole(p, w) /\ OtherWormholes(w) # {})
           => /\ last'.op = "teleport"
              /\ gameObjects'[p].vx = Quot(gameObjects[p].vx * 5, 10)
              /\ gameObjects'[p].vy = Quot(gameObjects[p].vy * 5, 10)
    ]_vars

\* the pass has evaluated a player in contact with a wormhole that follows it in the
\* list, another wormhole being in the collection, and has not teleported the player
C13_Witness ==
  /\ last.op = "glowing" /\ last.i = 1
  /\ gameObjects[last.i].type = "player" /\ gameObjects[last.j].type = "wormhole"
  /\ gameObjects[last.i] = pre[last.i]
  /\ InContact(gameObjects[last.i], gameObjects[last.j])
  /\ \E n \in Indices(gameObjects) :
       gameObjects[n].type = "wormhole" /\ n # last.j

\* ---------------------------------------------------------------- C14
\* C14: when the collision pass evaluates a player and a wormhole in contact, no mass
\* changes and nothing is queued for removal; the player's position and velocity are
\* unchanged when the collection holds no other wormhole, and otherwise the player
\* is either left where it is or put within 50 units on each axis of a wormhole of
\* the collection other than the one touched, with its velocity multiplied by 0.5.
C14_TeleportLandsAtOtherWormhole ==
  [][ CollideStepTaken
      => \A p, w \in {pairI, pairJ} :
           PlayerAtWormhole(p, w)
           => LET before == gameObjects[p]
                  after  == gameObjects'[p]
                  stays  == /\ after.x = before.x /\ after.y = before.y
                            /\ after.vx = before.vx /\ after.vy = before.vy
              IN /\ \A k \in Indices(gameObjects) : gameObjects'[k].mass = gameObjects[k].mass
                 /\ toRemove' = toRemove
                 /\ OtherWormholes(w) = {} => stays
                 /\ ~stays
                    => /\ last'.op = "teleport"
                       /\ after.vx = Quot(before.vx * 5, 10)
                       /\ after.vy = Quot(before.vy * 5, 10)
                       /\ \E n \in OtherWormholes(w) :
                            /\ Abs(after.x - gameObjects'[n].x) <= 50 * PosScale
                            /\ Abs(after.y - gameObjects'[n].y) <= 50 * PosScale
    ]_vars

\* the pass has teleported the player from a wormhole to another wormhole of the
\* collection, away from where it was
C14_Witness ==
  /\ last.op = "teleport"
  /\ gameObjects[last.i].type = "wormhole" /\ gameObjects[last.j].type = "player"
  /\ \E n \in Indices(gameObjects) :
       /\ gameObjects[n].type = "wormhole" /\ n # last.i
       /\ gameObjects[n].x # gameObjects[last.i].x
       /\ Abs(gameObjects[last.j].x - gameObjects[n].x) <= 50 * PosScale
  /\ gameObjects[last.j].x # pre[last.j].x
  /\ gameObjects[last.j].vx = Quot(pre[last.j].vx * 5, 10)

\* ---------------------------------------------------------------- C15
\* the activity is in contact with the body
Touches(activity, body) ==
  DistLess(Norm2(activity.x - body.x, activity.y - body.y), activity.radius + body.radius)

\* the activities that handleSpaceActivities is about to discover
Found ==
  {n \in Indices(spaceActivities) :
     ~spaceActivities[n].discovered /\ Touches(spaceActivities[n], PlayerRefBody)}

\* the sum of the rewards of the activities 1..m that are in S
RECURSIVE RewardSum(_, _)
RewardSum(S, m) ==
  IF m = 0 THEN 0
  ELSE RewardSum(S, m - 1) + (IF m \in S THEN spaceActivities[m].reward ELSE 0)

\* C15: handleSpaceActivities marks every undiscovered activity in contact with the
\* player as discovered and adds its reward to the score once; a discovered
\* energyCrystal sets the player's energy to maxEnergy; an activity already
\* discovered changes neither score nor energy however often it is touched again.
\* No step sets discovered back to false or removes an activity.
C15_DiscoveredOnceAndKept ==
  [][ /\ Len(spaceActivities') >= Len(spaceActivities)
      /\ \A n \in Indices(spaceActivities) :
           /\ spaceActivities'[n].id = spaceActivities[n].id
           /\ spaceActivities[n].discovered => spaceActivities'[n].discovered
      /\ pc = "activities"
         => /\ \A n \in Indices(spaceActivities) :
                 spaceActivities'[n].discovered
                   <=> (spaceActivities[n].discovered \/ n \in Found)
            /\ score' = score + RewardSum(Found, Len(spaceActivities))
            /\ (\E n \in Found : spaceActivities[n].type = "energyCrystal")
               => PlayerRefBody'.energy = PlayerRefBody'.maxEnergy
            /\ Found = {} => PlayerRefBody'.energy = PlayerRefBody.energy
    ]_vars

\* the player has found the crystal in one tick and is still in contact with it after
\* the activities of the next, with the score and the decayed energy left alone
C15_Witness ==
  /\ pc \in {"collide", "finish"} /\ frameCount = SnapshotFrame + 2
  /\ last.op # "discover"
  /\ spaceActivities[1].discovered
  /\ Touches(spaceActivities[1], PlayerRefBody)
  /\ score = spaceActivities[1].reward
  /\ PlayerRefBody.energy < PlayerRefBody.maxEnergy

\* ---------------------------------------------------------------- C16
\* a call of gameLoop starts
TickStarts == pc = "idle" /\ frameCount' # frameCount

\* C16: a call of gameLoop that finds the player's energy <= 0 moves the session
\* from "playing" to "gameOver", changes no body, event, activity or score and
\* requests no further frame; once the session is in "gameOver" no call of gameLoop
\* starts again.
C16_GameOverHaltsTicking ==
  [][ TickStarts
      => /\ gameState = "playing"
         /\ (FindPlayer(gameObjects) # 0
             /\ gameObjects[FindPlayer(gameObjects)].energy <= 0)
            => /\ gameState' = "gameOver"
               /\ UNCHANGED <<gameObjects, cosmicEvents, spaceActivities, score>>
               /\ rafQueue' = Tail(rafQueue)
    ]_vars

\* after a pause and a resume, gameLoop has been called twice for a player without
\* energy: the session was in "gameOver" when the second call started
C16_Witness ==
  /\ gameState = "gameOver" /\ last.op = "gameOver"
  /\ frameCount = SnapshotFrame + 2
  /\ gameObjects = pre /\ gameObjects[1].energy = 0
  /\ ~isPaused

\* ---------------------------------------------------------------- C17
\* handlePlayerDisconnect has just removed the Player with this id from the map
Disconnects(playerId) ==
  Includes(srvPlayers, playerId) /\ ~Includes(srvPlayers', playerId)

\* the messages of a type in a list of messages
OfType(messages, type) == SelectSeq(messages, LAMBDA message : message.type = type)

\* C17: after handlePlayerDisconnect for a known player, whatever updates the server
\* applied for it before, the player is not in the players map, its body (the
\* object that was its gameState) is not in gameObjects, and each remaining open
\* connection has been sent one playerLeft message with the player's id.
C17_DisconnectRemovesBody ==
  [][ \A n \in Indices(srvSent) :
        Disconnects(PlayerIdOf(n))
        => /\ \A m \in Indices(srvOwners') : srvOwners'[m] # PlayerIdOf(n)
           /\ \A k \in Indices(srvSent) :
                srvSent'[k] = IF k \in srvOpen /\ Includes(srvPlayers', PlayerIdOf(k))
                              THEN Append(srvSent[k],
                                          ServerMessage("playerLeft", PlayerIdOf(n), <<>>, <<>>))
                              ELSE srvSent[k]
    ]_vars

\* the server has handled the close of a connection for which it had applied an
\* update, told the other connection once, and still has the body in gameObjects
C17_Witness ==
  /\ Len(srvSent) = 2 /\ srvOpen = {2} /\ srvPlayers = <<PlayerIdOf(2)>>
  /\ Len(OfType(srvSent[2], "playerLeft")) = 1
  /\ \E m \in Indices(srvOwners) :
       srvOwners[m] = PlayerIdOf(1) /\ srvObjects[m].id = "player"

\* ---------------------------------------------------------------- C18
\* the ids of the bodies of a list
IdsOf(objs) == [n \in Indices(objs) |-> objs[n].id]

\* C18: no two bodies of the client's gameObjects, no two keys of the server's
\* players map and no two bodies of the server's gameObjects have the same id.
C18_UniqueIds ==
  /\ NoDuplicates(IdsOf(gameObjects))
  /\ NoDuplicates(srvPlayers)
  /\ NoDuplicates(IdsOf(srvObjects))

\* two clients are connected and the server has applied an update of each
C18_Witness ==
  /\ srvPlayers = <<PlayerIdOf(1), PlayerIdOf(2)>> /\ srvOpen = {1, 2}
  /\ \A n \in Indices(srvObjects) : srvObjects[n].id = "player"

\* ---------------------------------------------------------------- C19
\* C19: on every connection the first message the server sends is an init message
\* with the connection's playerId and a players list that holds the body with that
\* id, and no later message on the connection is an init message.
C19_InitOnceAndFirst ==
  \A n \in Indices(srvSent) :
     /\ Len(srvSent[n]) >= 1
     /\ srvSent[n][1].type = "init" /\ srvSent[n][1].playerId = PlayerIdOf(n)
     /\ Includes(IdsOf(srvSent[n][1].players), PlayerIdOf(n))
     /\ Len(OfType(srvSent[n], "init")) = 1

\* both connections have been sent their init and then other messages: the first a
\* playerJoined and a gameState, the second a gameState
C19_Witness ==
  /\ Len(srvSent) = 2
  /\ Len(OfType(srvSent[1], "playerJoined")) = 1 /\ Len(OfType(srvSent[1], "gameState")) = 1
  /\ Len(srvSent[2]) = 2 /\ srvSent[2][2].type = "gameState"
  /\ Len(srvSent[2][1].players) = 2

\* ---------------------------------------------------------------- C20
\* C20: the connection handler sends one playerJoined message with the new player's
\* body on every other connection that is open, and none on the new connection or
\* on a connection that is not open.
C20_JoinedToOthersOnly ==
  [][ Len(srvSent') = Len(srvSent) + 1
      => LET n == Len(srvSent')
             joined == ServerMessage("playerJoined", "",
                                     <<NewServerPlayer(PlayerIdOf(n))>>, <<>>)
         IN /\ OfType(srvSent'[n], "playerJoined") = <<>>
            /\ \A k \in Indices(srvSent) :
                 srvSent'[k] = IF k \in srvOpen THEN Append(srvSent[k], joined)
                               ELSE srvSent[k]
    ]_vars

\* a second client has connected while the first connection was open: the first
\* has been sent the second's body, the second only its init
C20_Witness ==
  /\ Len(srvSent) = 2 /\ srvSent[2] = OfType(srvSent[2], "init")
  /\ Len(OfType(srvSent[1], "playerJoined")) = 1
  /\ OfType(srvSent[1], "playerJoined")[1].players[1].id = PlayerIdOf(2)

\* ---------------------------------------------------------------- C21
\* a handler has just been given a frame that is not a message it knows
DropsFrame == last' # last /\ last'.op \in {"badServerFrame", "badClientFrame"}

\* C21: handling malformed JSON, or a message whose type (for an action message, whose
\* action or action type) is unknown or missing, changes no state of the client or
\* of the server and leaves the socket open at both ends; the next valid message is
\* then processed as always: a gameState or init message replaces the client's list,
\* an update is assigned to the sender's body on the server.
C21_BadFramesChangeNothing ==
  [][ /\ DropsFrame
         => UNCHANGED <<gameObjects, wormholes, playerRef, playerAliased, keys,
                        gravityPullActive, spaceActivities, cosmicEvents, spawned, score,
                        gameState, frameCount, pc, idx, pairI, pairJ, toRemove,
                        scoreIncrease, pre, contacts, activeDirections, touches, isPaused,
                        rafQueue, effectDeps, netVars>>
      /\ (last.op = "badServerFrame" /\ toClient # <<>> /\ toClient' = Tail(toClient)
          /\ Head(toClient).type \in {"init", "gameState"})
         => gameObjects' = Head(toClient).objects
      /\ (last.op = "badClientFrame" /\ toServer # <<>> /\ toServer' = Tail(toServer)
          /\ Head(toServer).type = "update")
         => srvObjects'[GameStateOf(srvOwners, PlayerIdOf(ClientSocket))] = Head(toServer).state
    ]_vars

\* the server has handled such a frame on the open connection, and a valid message
\* for each end is still to come
C21_Witness ==
  /\ last.op = "badClientFrame" /\ wsOpen /\ ClientSocket \in srvOpen
  /\ toServer # <<>> /\ Head(toServer).type = "update"
  /\ toClient # <<>> /\ Head(toClient).type = "gameState"

\* ---------------------------------------------------------------- C22
\* a step of the client's tick
TickSteps == pc # "idle" \/ TickStarts

\* C22: while the client's socket is not open no message is sent to the server, a
\* tick can start exactly as it can with an open socket, and its steps leave the
\* connection alone; the timeout set by ws.onclose is always one of 5000 ms; and
\* whenever the socket is closed, after an open connection or after a failed attempt,
\* connectWebSocket is eventually called again.
C22_OfflineTicksAndReconnect ==
  /\ [][ /\ ~wsOpen => Len(toServer') <= Len(toServer)
         /\ TickSteps => UNCHANGED <<wsOpen, wsPending, toClient, srvPlayers, srvObjects,
                                     srvTicks, srvOwners, srvOpen, srvSent>> ]_vars
  /\ [](pc = "idle" /\ rafQueue # <<>> /\ frameCount < SnapshotFrame + MaxFrames
        => ENABLED TickStart)
  /\ [](wsPending.kind = "timer" => wsPending.delay = 5000)
  /\ (~wsOpen /\ wsPending # PendingSocket) ~> (wsPending = PendingSocket)

\* the socket has been open twice and closed twice, the timeout is pending, and a
\* tick of an even frame, at which an open socket would have sent the update, has
\* just ended
C22_Witness ==
  /\ ~wsOpen /\ wsPending.kind = "timer" /\ Len(srvSent) = 2 /\ srvOpen = {}
  /\ last.op = "tickEnd" /\ frameCount % 2 = 0 /\ toServer = <<>>

\* ---------------------------------------------------------------- C23
\* C23: every change of gravityPullActiveRef.current while the socket is open, by the
\* Space key or by the touch button, to TRUE or to FALSE, sends one action message
\* of type gravityPull whose active field is the new value, and nothing else.
C23_ToggleSendsAction ==
  [][ (wsOpen /\ gravityPullActive' # gravityPullActive)
      => toServer' = Append(toServer,
                            ClientMessage("action", NullBody,
                                          PlayerAction("gravityPull", gravityPullActive')))
    ]_vars

\* Space is held on a connected client, the pull is active, and no action message has
\* been sent
C23_Witness ==
  /\ wsOpen /\ keys = {" "} /\ gravityPullActive
  /\ OfType(toServer, "action") = <<>> /\ frameCount = SnapshotFrame

\* ---------------------------------------------------------------- C24
\* C24: a body whose id is in the client's list before a step and not after it was
\* removed by the list's filter at the end of a tick, its id being in the toRemove
\* that the collision pass returned; no other step, the handling of an init or
\* gameState message included, takes a body out of the list.
C24_OnlyCollisionsRemove ==
  [][ \A n \in Indices(gameObjects) :
        ~Includes(IdsOf(gameObjects'), gameObjects[n].id)
        => pc = "finish" /\ Includes(toRemove, gameObjects[n].id)
    ]_vars

\* the client has handled the server's init message: its own bodies, the player among
\* them, are no longer in the list, and no collision pass had removed any
C24_Witness ==
  /\ last.op = "init" /\ FindPlayer(gameObjects) = 0 /\ toRemove = <<>>
  /\ Len(gameObjects) = 1 /\ gameObjects[1].id = PlayerIdOf(1) /\ score = 0

\* ---------------------------------------------------------------- C25
\* a body that glows and is not a wormhole
Landmark(obj) == obj.isGlowing /\ obj.type # "wormhole"

\* C25: no step of a client tick changes the position or the velocity of a glowing
\* body that is not a wormhole, whatever the player's mass and whether or not the
\* gravity pull is active.
C25_LandmarksStayPut ==
  [][ \A n \in Indices(gameObjects) : \A m \in Indices(gameObjects') :
        (Landmark(gameObjects[n]) /\ gameObjects'[m].id = gameObjects[n].id)
        => /\ gameObjects'[m].x = gameObjects[n].x /\ gameObjects'[m].y = gameObjects[n].y
           /\ gameObjects'[m].vx = gameObjects[n].vx /\ gameObjects'[m].vy = gameObjects[n].vy
    ]_vars

\* a tick has ended in which a player heavier than the space station near it held
\* the pull: the station has left its place
C25_Witness ==
  /\ last.op = "tickEnd" /\ gravityPullActive
  /\ \E n \in Indices(gameObjects) :
       /\ gameObjects[n].type = "spacestation" /\ gameObjects[n].isGlowing
       /\ gameObjects[n].x = 0 /\ gameObjects[n].y > -30 * PosScale
       /\ gameObjects[n].mass < gameObjects[1].mass

\* ---------------------------------------------------------------- C26
\* body n moves, and nothing acts on it in a tick: no movement key is held, the pull is
\* off, it is no AI, and either it is alone in the list or applyGravity skips it
Forceless(n) ==
  /\ gameObjects[n].vx # 0 \/ gameObjects[n].vy # 0
  /\ keys \cap MovementKeys = {} /\ ~gravityPullActive
  /\ gameObjects[n].type # "ai"
  /\ Len(gameObjects) = 1 \/ Landmark(gameObjects[n])

\* C26: in a tick, a moving body on which no force acts keeps its position and its
\* velocity in every step but its integration, which adds the velocity to the
\* position and then multiplies both velocity components by 0.998: the speed is
\* strictly smaller afterwards.
C26_ForcelessTickDampsOnly ==
  [][ TickSteps
      => \A n \in Indices(gameObjects) : \A m \in Indices(gameObjects') :
           (Forceless(n) /\ gameObjects'[m].id = gameObjects[n].id)
           => LET obj == gameObjects[n]
                  new == gameObjects'[m]
              IN IF pc = "integrate" /\ idx = n
                 THEN /\ new.x = obj.x + obj.vx /\ new.y = obj.y + obj.vy
                      /\ new.vx = Quot(obj.vx * 998, 1000)
                      /\ new.vy = Quot(obj.vy * 998, 1000)
                      /\ SpeedSquared(new) < SpeedSquared(obj)
                 ELSE /\ new.x = obj.x /\ new.y = obj.y
                      /\ new.vx = obj.vx /\ new.vy = obj.vy
    ]_vars

\* a player alone, moving at 3.99 with no key held, has gone through a whole tick: it
\* is 3.99 further and moves at 3.98
C26_Witness ==
  /\ last.op = "tickEnd" /\ frameCount = SnapshotFrame + 1 /\ keys = {}
  /\ Len(gameObjects) = 1 /\ gameObjects[1].id = "player"
  /\ gameObjects[1].x = MAX_VELOCITY - 1
  /\ gameObjects[1].vx = Quot((MAX_VELOCITY - 1) * 998, 1000) /\ gameObjects[1].vy = 0

\* ---------------------------------------------------------------- C27
\* updateAI has just run, past its throttle, for the AI body at idx
Evaluates ==
  /\ pc = "updateAI" /\ last'.op = "updateAI"
  /\ gameObjects[idx].hasEnergy /\ gameObjects[idx].energy > 0

\* body m is another body within 300 of the AI body at idx
Nearby(m) ==
  m # idx /\ DistLess(Dist2(gameObjects[idx], gameObjects[m]), 300 * PosScale)

\* the state the priority gives the AI body at idx, whose mass after growth is mass
Priority(mass) ==
  IF gameObjects[idx].energy < 30 * EnergyScale
     /\ \E m \in Indices(gameObjects) : Nearby(m) /\ gameObjects[m].isGlowing
  THEN "charging"
  ELSE IF \E m \in Indices(gameObjects) : Nearby(m) /\ gameObjects[m].mass > mass
  THEN "fleeing"
  ELSE IF \E m \in Indices(gameObjects) :
            Nearby(m) /\ gameObjects[m].mass < mass /\ ~gameObjects[m].isGlowing
  THEN "hunting"
  ELSE "exploring"

\* C27: an evaluation of updateAI for an AI body with positive energy leaves it in
\* the state of the first of these that applies: charging (energy < 30 and a glowing
\* body within 300), fleeing (a body of larger mass within 300), hunting (a
\* non-glowing body of smaller mass within 300), exploring; and its velocity changes
\* by the acceleration of that state alone: toward the first glowing body by 0.1,
\* away from the larger bodies within 150 by 0.15 each, toward the first smaller body
\* by 0.08, or by a random draw.
C27_AIPriority ==
  [][ Evaluates
      => LET ai    == gameObjects[idx]
             new   == gameObjects'[idx]
             grown == [gameObjects EXCEPT ![idx] = [ai EXCEPT !.mass = new.mass]]
             state == Priority(new.mass)
             glow  == FirstIndex(gameObjects,
                                 LAMBDA m : Nearby(m) /\ gameObjects[m].isGlowing)
             prey  == FirstIndex(gameObjects,
                                 LAMBDA m : Nearby(m) /\ gameObjects[m].mass < new.mass
                                            /\ ~gameObjects[m].isGlowing)
         IN /\ new.aiState = state
            /\ new.x = ai.x /\ new.y = ai.y
            /\ <<new.vx, new.vy>> \in
                 CASE state = "charging" ->
                        {<<Toward(ai, gameObjects[glow], 10 * (PosScale \div 100)).vx,
                           Toward(ai, gameObjects[glow], 10 * (PosScale \div 100)).vy>>}
                   [] state = "fleeing" -> {FleeFold(grown, idx, Len(gameObjects))}
                   [] state = "hunting" ->
                        {<<Toward(ai, gameObjects[prey], 8 * (PosScale \div 100)).vx,
                           Toward(ai, gameObjects[prey], 8 * (PosScale \div 100)).vy>>}
                   [] OTHER -> {<<ai.vx + draw[1], ai.vy + draw[2]>> : draw \in ExploreDraws}
    ]_vars

\* an AI body low on energy, with a glowing body, larger bodies and a smaller body
\* within 300, has been evaluated: it is charging and moves toward the station
C27_Witness ==
  /\ last.op = "updateAI" /\ Len(gameObjects) = 7
  /\ gameObjects[2].energy = 20 * EnergyScale /\ gameObjects[2].aiState = "charging"
  /\ gameObjects[2].vx = 10 * (PosScale \div 100) /\ gameObjects[2].vy = 0

\* ---------------------------------------------------------------- C28
\* C28: an evaluation of updateAI for an AI body whose energy is below 30 never leaves
\* it in the fleeing state, whether or not a glowing body is within 300.
C28_LowEnergyNeverFlees ==
  [][ (Evaluates /\ gameObjects[idx].energy < 30 * EnergyScale)
      => gameObjects'[idx].aiState # "fleeing" ]_vars

\* an AI body with energy 20, a planet of larger mass at 100 and no glowing body
\* within 300 has been evaluated: it is fleeing
C28_Witness ==
  /\ last.op = "updateAI" /\ gameObjects[2].energy = 20 * EnergyScale
  /\ gameObjects[2].aiState = "fleeing" /\ gameObjects[2].vx > 0
  /\ \A n \in Indices(gameObjects) : ~gameObjects[n].isGlowing

\* ---------------------------------------------------------------- C29
\* C29: when an evaluation of updateAI raises the AI body's mass, the new mass is at
\* most AI_MAX_MASS and the radius is calculateRadius of the new mass.
C29_GrowthStopsAtCap ==
  [][ (Evaluates /\ gameObjects'[idx].mass > gameObjects[idx].mass)
      => /\ gameObjects'[idx].mass <= AI_MAX_MASS
         /\ gameObjects'[idx].radius = calculateRadius(gameObjects'[idx].mass, "ai")
    ]_vars

\* an AI body of mass 39.9999 has been evaluated: its mass is 40.0001
C29_Witness ==
  /\ last.op = "updateAI" /\ gameObjects[2].type = "ai"
  /\ gameObjects[2].mass = AI_MAX_MASS + 1 /\ pre[2].mass = AI_MAX_MASS - 1
  /\ gameObjects[2].radius = calculateRadius(AI_MAX_MASS + 1, "ai")

\* ---------------------------------------------------------------- C30
\* the pull of the player at p reaches body m: lighter than the player, and at a
\* distance above 0 and below 250
InPull(p, m) ==
  /\ gameObjects[m].mass < gameObjects[p].mass
  /\ Dist2(gameObjects[p], gameObjects[m]) > 0
  /\ DistLess(Dist2(gameObjects[p], gameObjects[m]), 250 * PosScale)

\* C30: applyGravity(obj) changes the velocity of a body other than obj only if obj
\* is the player, the pull flag is on, the player's energy is above 0 and the body is
\* lighter than the player and at a distance above 0 and below 250 from it; with
\* the flag off or the player's energy at most 0 the call takes no energy from the
\* player; with the flag on and positive energy the call for the player takes
\* exactly 3 x 0.016 from the player's energy, and no other call takes any.
C30_PullConditions ==
  [][ (pc = "applyGravity" /\ FindPlayer(gameObjects) # 0)
      => LET p      == FindPlayer(gameObjects)
             player == gameObjects[p]
             pulls  == gravityPullActive /\ player.energy > 0
         IN /\ \A m \in Indices(gameObjects) \ {idx} :
                 (gameObjects'[m].vx # gameObjects[m].vx
                  \/ gameObjects'[m].vy # gameObjects[m].vy)
                 => pulls /\ idx = p /\ InPull(p, m)
            /\ gameObjects'[p].energy =
                 IF pulls /\ idx = p THEN player.energy - 48 * (EnergyScale \div 1000)
                 ELSE player.energy
    ]_vars

\* the list is the one a gameState message of the server brought, playerRef.current
\* is still the body of the list before it, and applyGravity has run for the list's
\* player with the pull on: the 0.048 are gone from playerRef.current, not from the
\* player of the list
C30_Witness ==
  /\ last.op = "gravityPull" /\ ~playerAliased /\ FindPlayer(gameObjects) # 0
  /\ gameObjects[FindPlayer(gameObjects)].energy > 0
  /\ playerRef.energy =
       gameObjects[FindPlayer(gameObjects)].energy - 48 * (EnergyScale \div 1000)


\* ---------------------------------------------------------------- generateSpaceActivities

\* activityTypes: the type and the reward of each entry
ActivityTypes ==
  <<[type |-> "derelictShip", reward |-> 50], [type |-> "ancientRelic", reward |-> 100],
    [type |-> "energyCrystal", reward |-> 75], [type |-> "spaceWhale", reward |-> 150],
    [type |-> "alienStructure", reward |-> 200]>>

\* Math.sqrt(dx * dx + dy * dy) < r for distances past FarAxis, computed in whole
\* units: exact for coordinates that are whole units, as those of this section are
WithinUnits(a, b, r) ==
  LET dx == Quot(a.x - b.x, PosScale)
      dy == Quot(a.y - b.y, PosScale)
  IN dx * dx + dy * dy < r * r

\* nearbyActivities: existingActivities.filter(distance < 1200)
nearbyActivities(existingActivities, player) ==
  SelectSeq(existingActivities, LAMBDA activity : WithinUnits(activity, player, 1200))

\* the draws of Math.random() for one activity: the offset from the player (500 at
\* angle 0, just under 1200 at angle 3 pi / 2) and the index into activityTypes
ActivityOffsets == {<<500 * PosScale, 0>>, <<0, -1199 * PosScale>>}
ActivityDraws == ActivityOffsets \X Indices(ActivityTypes)

\* `activity-${Date.now()}-${i}` for the n-th entry of the list
ActivityIds == <<"a1", "a2", "a3", "a4", "a5", "a6", "a7", "a8", "a9">>

\* the activity pushed as the n-th entry of the list for the draw given
NewActivity(player, draw, n) ==
  [id |-> ActivityIds[n], type |-> ActivityTypes[draw[2]].type,
   x |-> player.x + draw[1][1], y |-> player.y + draw[1][2], radius |-> 15 * PosScale,
   discovered |-> FALSE, reward |-> ActivityTypes[draw[2]].reward]

\* spaceActivitiesRef.current after generateSpaceActivities, for the draws of its loop
ActivitiesAfter(existingActivities, player, draws) ==
  IF Len(nearbyActivities(existingActivities, player)) < 3
  THEN existingActivities
         \o <<NewActivity(player, draws[1], Len(existingActivities) + 1),
              NewActivity(player, draws[2], Len(existingActivities) + 2)>>
  ELSE existingActivities

\* generateSpaceActivities(), called by initGame and by gameLoop every 600 frames
generateSpaceActivities ==
  /\ pc = "idle" /\ gameState = "playing"
  /\ PlayerRefBody # NullBody
  /\ \E draws \in ActivityDraws \X ActivityDraws :
       spaceActivities' = ActivitiesAfter(spaceActivities, PlayerRefBody, draws)
  /\ last' = Did("generateSpaceActivities", Len(spaceActivities') - Len(spaceActivities))
  /\ UNCHANGED <<gameObjects, wormholes, playerRef, playerAliased, keys, gravityPullActive,
                 cosmicEvents, spawned, score, gameState, frameCount, pc, idx, pairI, pairJ,
                 toRemove, scoreIncrease, pre, contacts,
                 activeDirections, touches, isPaused, rafQueue, effectDeps>>
  /\ UNCHANGED netVars
  /\ UNCHANGED otherPlayers

\* the activities an earlier run has left around a player at the origin: three that
\* the player has discovered since, at 600, 700 and 800; one not discovered, at 900;
\* one not discovered at 1300, left behind
ActivityPool ==
  <<[id |-> "a1", type |-> "derelictShip", x |-> 600 * PosScale, y |-> 0,
     radius |-> 15 * PosScale, discovered |-> TRUE, reward |-> 50],
    [id |-> "a2", type |-> "ancientRelic", x |-> 0, y |-> 700 * PosScale,
     radius |-> 15 * PosScale, discovered |-> TRUE, reward |-> 100],
    [id |-> "a3", type |-> "spaceWhale", x |-> -800 * PosScale, y |-> 0,
     radius |-> 15 * PosScale, discovered |-> TRUE, reward |-> 150],
    [id |-> "a4", type |-> "energyCrystal", x |-> 0, y |-> -900 * PosScale,
     radius |-> 15 * PosScale, discovered |-> FALSE, reward |-> 75],
    [id |-> "a5", type |-> "alienStructure", x |-> 1300 * PosScale, y |-> 0,
     radius |-> 15 * PosScale, discovered |-> FALSE, reward |-> 200]>>

\* the activities of the set chosen, in the order of ActivityPool, with the ids of
\* their places in the list
RECURSIVE PoolActivities(_, _)
PoolActivities(chosen, n) ==
  IF n = 0 THEN <<>>
  ELSE IF n \in chosen
       THEN LET before == PoolActivities(chosen, n - 1)
            IN Append(before, [ActivityPool[n] EXCEPT !.id = ActivityIds[Len(before) + 1]])
       ELSE PoolActivities(chosen, n - 1)

\* a session between two ticks, with some of the activities of ActivityPool
InitActivities ==
  /\ gameObjects = <<NewPlayer>>
  /\ wormholes = <<>>
  /\ playerRef = NullBody /\ playerAliased = TRUE
  /\ keys = {} /\ gravityPullActive = FALSE
  /\ \E chosen \in SUBSET Indices(ActivityPool) :
       spaceActivities = PoolActivities(chosen, Len(ActivityPool))
  /\ cosmicEvents = <<>> /\ spawned = 0 /\ score = 0
  /\ gameState = "playing" /\ frameCount = SnapshotFrame
  /\ pc = "idle" /\ idx = 0 /\ pairI = 0 /\ pairJ = 0
  /\ toRemove = <<>> /\ scoreIncrease = 0
  /\ pre = gameObjects /\ contacts = {}
  /\ last = Did("activities", 0)
  /\ activeDirections = {} /\ touches = 0 /\ isPaused = FALSE /\ rafQueue = <<TRUE>>
  /\ effectDeps = <<"playing", FALSE>>
  /\ NoNet

SpecActivities == InitActivities /\ [][generateSpaceActivities]_vars

\* ---------------------------------------------------------------- C31
\* the number of activities not yet discovered within 1200 units of the player
UndiscoveredNearby ==
  Cardinality({n \in Indices(spaceActivities) :
                 /\ ~spaceActivities[n].discovered
                 /\ WithinUnits(spaceActivities[n], PlayerRefBody, 1200)})

\* C31: whenever generateSpaceActivities runs while fewer than 3 undiscovered
\* activities lie within 1200 units of the player, it appends a batch of 2 new
\* undiscovered activities, however many discovered activities lie within that radius.
C31_BatchWhenFewUndiscovered ==
  [][ UndiscoveredNearby < 3
      => /\ Len(spaceActivities') = Len(spaceActivities) + 2
         /\ SubSeq(spaceActivities', 1, Len(spaceActivities)) = spaceActivities
         /\ \A n \in (Len(spaceActivities) + 1)..Len(spaceActivities') :
              ~spaceActivities'[n].discovered ]_vars

\* generateSpaceActivities has run with three discovered activities and no
\* undiscovered one within 1200 of the player, and has added nothing
C31_Witness ==
  /\ last.op = "generateSpaceActivities" /\ last.k = 0
  /\ UndiscoveredNearby = 0
  /\ Len(nearbyActivities(spaceActivities, PlayerRefBody)) = 3
  /\ \A n \in Indices(spaceActivities) : spaceActivities[n].discovered


\* ---------------------------------------------------------------- updateCosmicEvents

\* updateCosmicEvents(): every event ages, the events of Spawning draw Math.random()
\* for a meteor or an asteroid, and the filter keeps the events with timeLeft > 0
updateCosmicEvents ==
  /\ pc = "idle" /\ gameState = "playing"
  /\ \E S \in SUBSET Spawning(cosmicEvents) :
       /\ spawned + Cardinality(S) <= MaxSpawned
       /\ gameObjects' = gameObjects \o Spawns(cosmicEvents, S, Len(cosmicEvents), spawned)
       /\ spawned' = spawned + Cardinality(S)
       /\ last' = Did("updateCosmicEvents", Cardinality(S))
  /\ cosmicEvents' = AgeEvents(cosmicEvents)
  /\ UNCHANGED <<wormholes, playerRef, playerAliased, keys, gravityPullActive,
                 spaceActivities, score, gameState, frameCount, pc, idx, pairI, pairJ,
                 toRemove, scoreIncrease, pre, contacts,
                 activeDirections, touches, isPaused, rafQueue, effectDeps>>
  /\ UNCHANGED netVars
  /\ UNCHANGED otherPlayers

\* the events of a session late in their lives: a meteor shower, an asteroid belt and
\* a nebula, each absent (0) or with one, one and a half or three ticks left to live
EventKinds == <<"meteorShower", "asteroidBelt", "nebula">>
EventAges == {16, 24, 48}

\* the events of EventKinds[1..n] that ages gives a time to live, in that order
RECURSIVE AgedEvents(_, _)
AgedEvents(ages, n) ==
  IF n = 0 THEN <<>>
  ELSE IF ages[n] = 0 THEN AgedEvents(ages, n - 1)
       ELSE LET before == AgedEvents(ages, n - 1)
            IN Append(before, [NewEvent(EventKinds[n], NewPlayer, Len(before) + 1)
                                 EXCEPT !.timeLeft = ages[n]])

InitEvents ==
  /\ gameObjects = <<NewPlayer>>
  /\ wormholes = <<>>
  /\ playerRef = NullBody /\ playerAliased = TRUE
  /\ keys = {} /\ gravityPullActive = FALSE
  /\ spaceActivities = <<>>
  /\ \E ages \in [Indices(EventKinds) -> {0} \cup EventAges] :
       cosmicEvents = AgedEvents(ages, Len(EventKinds))
  /\ spawned = 0 /\ score = 0
  /\ gameState = "playing" /\ frameCount = SnapshotFrame
  /\ pc = "idle" /\ idx = 0 /\ pairI = 0 /\ pairJ = 0
  /\ toRemove = <<>> /\ scoreIncrease = 0
  /\ pre = gameObjects /\ contacts = {}
  /\ last = Did("activities", 0)
  /\ activeDirections = {} /\ touches = 0 /\ isPaused = FALSE /\ rafQueue = <<TRUE>>
  /\ effectDeps = <<"playing", FALSE>>
  /\ NoNet

\* the ticks continue: updateCosmicEvents is called again and again
SpecEvents == InitEvents /\ [][updateCosmicEvents]_vars /\ WF_vars(updateCosmicEvents)

\* ---------------------------------------------------------------- C32
\* the event with the id given is in the collection
EventPresent(id) == \E n \in Indices(cosmicEvents) : cosmicEvents[n].id = id

\* C32: updateCosmicEvents takes 0.016 from the timeLeft of every event and keeps
\* exactly the events whose timeLeft is still > 0, in their order, so that no event
\* with timeLeft <= 0 is left in the collection; it pushes at most one body for each
\* meteorShower or asteroidBelt whose timeLeft is still > 0 and none for other
\* events; and every event is removed in the end while the calls continue.
C32_EventsAgeAndExpire ==
  /\ [][ /\ cosmicEvents' = SelectSeq([n \in Indices(cosmicEvents) |->
                                         [cosmicEvents[n] EXCEPT
                                            !.timeLeft = cosmicEvents[n].timeLeft - 16]],
                                      LAMBDA e : e.timeLeft > 0)
         /\ \A n \in Indices(cosmicEvents') : cosmicEvents'[n].timeLeft > 0
         /\ Len(gameObjects') >= Len(gameObjects)
         /\ SubSeq(gameObjects', 1, Len(gameObjects)) = gameObjects
         /\ Len(gameObjects') - Len(gameObjects)
              <= Cardinality({n \in Indices(cosmicEvents) :
                                /\ cosmicEvents[n].type \in {"meteorShower", "asteroidBelt"}
                                /\ cosmicEvents[n].timeLeft - 16 > 0})
         /\ \A n \in (Len(gameObjects) + 1)..Len(gameObjects') :
              gameObjects'[n].type \in {"debris", "asteroid"} ]_vars
  /\ \A id \in {"e1", "e2", "e3"} : EventPresent(id) ~> ~EventPresent(id)

\* a call has removed the last event, whose timeLeft had come to 0 or less, after an
\* earlier call pushed a body for a shower or a belt
C32_Witness ==
  /\ last.op = "updateCosmicEvents"
  /\ cosmicEvents = <<>>
  /\ Len(gameObjects) = 2 /\ gameObjects[2].type \in {"debris", "asteroid"}


\* ---------------------------------------------------------------- C33
\* C33: while isPaused is true no call of gameLoop starts, whatever pauses and resumes
\* came before.
C33_NoTickWhilePaused ==
  [][ TickStarts => ~isPaused ]_vars

\* after a resume and a second pause, gameLoop has run through its forEach up to the
\* collision pass with isPaused true
C33_Witness ==
  /\ isPaused /\ gameState = "playing"
  /\ pc = "finish" /\ frameCount > SnapshotFrame
  /\ effectDeps = <<"playing", TRUE>>

\* ---------------------------------------------------------------- C34
\* C34: at any time at most one gameLoop callback is pending in the animation-frame
\* queue.
C34_OneCallbackPending ==
  Len(rafQueue) <= 1

\* a resume has left two gameLoop callbacks in the queue, the one handlePause
\* requested and the one the game loop effect requested, and no tick is running
C34_Witness ==
  /\ last.op = "resume" /\ pc = "idle" /\ ~isPaused /\ gameState = "playing"
  /\ rafQueue = <<FALSE, TRUE>>


\* ---------------------------------------------------------------- C35
\* the client handles an init or gameState message of the server
Syncs ==
  /\ pc = "idle" /\ toClient # <<>> /\ toClient' = Tail(toClient)
  /\ Head(toClient).parses /\ Head(toClient).type \in {"init", "gameState"}

\* C35: when a playing client whose body list holds the body with id "player", with
\* energy > 0, handles an init or gameState message, the list still holds a body with
\* id "player" afterwards, so that the next call of gameLoop finds it.
C35_SnapshotKeepsPlayer ==
  [][ ( /\ Syncs /\ gameState = "playing"
        /\ FindPlayer(gameObjects) # 0
        /\ gameObjects[FindPlayer(gameObjects)].energy > 0 )
      => FindPlayer(gameObjects') # 0 ]_vars

\* the call of gameLoop after the init message found no body with id "player" in the
\* list, which holds the server's body for this client with energy 80 and nothing
\* removed by a collision: the session is in "gameOver"
C35_Witness ==
  /\ gameState = "gameOver" /\ last.op = "gameOver"
  /\ toRemove = <<>> /\ FindPlayer(gameObjects) = 0
  /\ gameObjects # <<>> /\ gameObjects[1].id = PlayerIdOf(ClientSocket)
  /\ gameObjects[1].energy = 80 * EnergyScale


\* ---------------------------------------------------------------- the session beside another client

\* another client has connected before this session's socket opens: it is connection 1
PeerIsFirst == srvSent # <<>> /\ (~wsOpen \/ Len(srvSent) > 1)

\* the session, the server, and one other client that connects first and sends
\* updates and actions
NextOthers ==
  \/ TickWire
  \/ (~wsOpen /\ srvSent = <<>> /\ PeerConnect)
  \/ Connect
  \/ (PeerIsFirst /\ PeerMessage(1))
  \/ handlePlayerMessage
  \/ ServerGameLoop
  \/ handleServerMessage

SpecOthers == InitWire /\ [][NextOthers]_vars

\* ---------------------------------------------------------------- C36
\* the list without its entry k
Without(list, k) ==
  [n \in 1..(Len(list) - 1) |-> IF n < k THEN list[n] ELSE list[n + 1]]

\* the place of this client's Player in the server's map
OwnPlace == CHOOSE k \in Indices(srvPlayers) : srvPlayers[k] = PlayerIdOf(ClientSocket)

\* C36: after the client handles an init or gameState message, otherPlayers is the
\* message's list of player bodies without the body of the client's own Player: it
\* holds the body of every other connected player and not the client's own.
C36_OthersWithoutSelf ==
  [][ Syncs => otherPlayers' = Without(Head(toClient).players, OwnPlace) ]_vars

\* the client has handled a gameState message sent while another client was
\* connected whose update the server had applied: otherPlayers holds the client's own
\* body and not the other client's
C36_Witness ==
  /\ last.op = "gameState" /\ wsOpen /\ Len(srvPlayers) = 2
  /\ Len(otherPlayers) = 1 /\ otherPlayers[1].id = PlayerIdOf(ClientSocket)
  /\ srvObjects[1].id = "player"


\* ---------------------------------------------------------------- the collision pass and the next call

\* the collision pass of a tick, the end of the tick, and the start of the next call
\* of gameLoop
NextAbsorbed == StepCollide \/ TickEnd \/ TickStart

SpecAbsorbed == InitCollide /\ [][NextAbsorbed]_vars

\* ---------------------------------------------------------------- C37
\* the pair that handleCollisions is at is the player and a body that does not glow,
\* of larger mass, in contact
PlayerMeetsLarger ==
  /\ pc = "collide"
  /\ \E p, o \in {pairI, pairJ} :
       /\ p # o
       /\ gameObjects[p].id = "player" /\ ~gameObjects[o].isGlowing
       /\ gameObjects[o].mass > gameObjects[p].mass
       /\ InContact(gameObjects[p], gameObjects[o])

\* C37: when the collision pass evaluates the player in contact with a non-glowing
\* body of strictly larger mass, the player's id is put in toRemove; the filter at
\* the end of the tick then leaves no body with id "player" in the collection; and
\* the call of gameLoop that follows moves the session to "gameOver", whatever the
\* player's energy was.
C37_AbsorbedPlayerEndsSession ==
  [][ /\ PlayerMeetsLarger => toRemove' = Append(toRemove, "player")
      /\ (pc = "finish" /\ Includes(toRemove, "player")) => FindPlayer(gameObjects') = 0
      /\ (TickStarts /\ Includes(toRemove, "player"))
         => (gameState' = "gameOver" /\ rafQueue' = <<>>) ]_vars

\* a planet has absorbed the player, whose energy was 80; the next call of gameLoop
\* found no player and the session is in "gameOver"
C37_Witness ==
  /\ gameState = "gameOver" /\ last.op = "gameOver"
  /\ toRemove = <<"player">> /\ FindPlayer(gameObjects) = 0
  /\ playerRef.id = "player" /\ playerRef.energy = PLAYER_START_ENERGY
  /\ \E n \in Indices(gameObjects) :
       gameObjects[n].type = "planet" /\ gameObjects[n].mass > 40 * MassScale


\* ---------------------------------------------------------------- generateAIPlayers

\* `ai-${Date.now()}-${i}`: the ids of the AI bodies in the order of their making,
\* three to a batch
AiIds == <<"ai1", "ai2", "ai3", "ai4", "ai5", "ai6", "ai7", "ai8", "ai9", "ai10",
           "ai11", "ai12", "ai13", "ai14", "ai15", "ai16">>

\* how many AI bodies the model lets a session make
MaxGenerated == 12

\* existingAI: gameObjectsRef.current.filter(obj => obj.type === "ai")
existingAI(objs) == SelectSeq(objs, LAMBDA obj : obj.type = "ai")

\* the places in AiIds that the batches up to the last one with a body in the list
\* have used, 0 if the list holds no AI body
LastMade(objs) ==
  LET ai == existingAI(objs)
  IN IF ai = <<>> THEN 0
     ELSE 3 * (((CHOOSE k \in Indices(AiIds) : AiIds[k] = ai[Len(ai)].id) + 2) \div 3)

\* the draws of 4 + Math.random() * 6 for the three bodies of a batch: all at the
\* least mass, or all just under the greatest
AiMassDraws == {[i \in 1..3 |-> mass] : mass \in {4 * MassScale, 10 * MassScale - 1}}

\* the i-th body of a batch: 400 to 1000 from the player, energy 40 to 80
BatchAI(player, made, i, mass) ==
  NewAI(AiIds[made + i], player.x + (300 + 100 * i) * PosScale, player.y, 0, 0,
        mass, 50 * EnergyScale)

\* AIPlayersAfter with the test existingAI.length <= 8
AIPlayersAfter_UpToEight(objs, player, masses) ==
  IF Len(existingAI(objs)) <= 8
  THEN objs \o [i \in 1..3 |-> BatchAI(player, LastMade(objs), i, masses[i])]
  ELSE objs

\* gameObjectsRef.current after generateAIPlayers for the draws given
AIPlayersAfter(objs, player, masses) ==
  IF Len(existingAI(objs)) < 8
  THEN objs \o [i \in 1..3 |-> BatchAI(player, LastMade(objs), i, masses[i])]
  ELSE objs

\* generateAIPlayers(), called by initGame and by gameLoop when frameCount is a
\* multiple of 300
generateAIPlayers ==
  /\ pc = "idle" /\ gameState = "playing"
  /\ PlayerRefBody # NullBody
  /\ LastMade(gameObjects) + 3 <= MaxGenerated
  /\ \E masses \in AiMassDraws :
       gameObjects' = AIPlayersAfter(gameObjects, PlayerRefBody, masses)
  /\ last' = Did("generateAIPlayers", Len(gameObjects') - Len(gameObjects))
  /\ UNCHANGED <<wormholes, playerRef, playerAliased, keys, gravityPullActive,
                 spaceActivities, cosmicEvents, spawned, score, gameState, frameCount, pc,
                 idx, pairI, pairJ, toRemove, scoreIncrease, pre, contacts,
                 activeDirections, touches, isPaused, rafQueue, effectDeps, otherPlayers>>
  /\ UNCHANGED netVars

\* the most AI bodies the model lets one collision pass absorb
MaxAbsorbed == 2

\* the filter at the end of a tick in which handleCollisions returned the ids of some
\* AI bodies in toRemove
FilterAbsorbedAI ==
  /\ pc = "idle" /\ gameState = "playing"
  /\ \E gone \in SUBSET {n \in Indices(gameObjects) : gameObjects[n].type = "ai"} :
       /\ gone # {} /\ Cardinality(gone) <= MaxAbsorbed
       /\ LET absorbed == SelectSeq(gameObjects, LAMBDA obj :
                                      \E n \in gone : gameObjects[n].id = obj.id)
          IN gameObjects' = Survivors(gameObjects,
                                      [k \in Indices(absorbed) |-> absorbed[k].id])
  /\ last' = Did("filter", Len(gameObjects) - Len(gameObjects'))
  /\ UNCHANGED <<wormholes, playerRef, playerAliased, keys, gravityPullActive,
                 spaceActivities, cosmicEvents, spawned, score, gameState, frameCount, pc,
                 idx, pairI, pairJ, toRemove, scoreIncrease, pre, contacts,
                 activeDirections, touches, isPaused, rafQueue, effectDeps, otherPlayers>>
  /\ UNCHANGED netVars

\* initGame up to its call of generateAIPlayers, with no bodies around the player
InitSwarm ==
  /\ gameObjects = <<NewPlayer>>
  /\ wormholes = <<>>
  /\ playerRef = NullBody /\ playerAliased = TRUE
  /\ keys = {} /\ gravityPullActive = FALSE
  /\ spaceActivities = <<>> /\ cosmicEvents = <<>> /\ spawned = 0 /\ score = 0
  /\ gameState = "playing" /\ frameCount = 0
  /\ pc = "idle" /\ idx = 0 /\ pairI = 0 /\ pairJ = 0
  /\ toRemove = <<>> /\ scoreIncrease = 0
  /\ pre = gameObjects /\ contacts = {}
  /\ last = Did("initGame", 0)
  /\ activeDirections = {} /\ touches = 0 /\ isPaused = FALSE /\ rafQueue = <<>>
  /\ effectDeps = <<"menu", FALSE>>
  /\ NoNet

SpecSwarm == InitSwarm /\ [][generateAIPlayers \/ FilterAbsorbedAI]_vars

\* ---------------------------------------------------------------- C38
\* C38: in a client that handles no message of the server the list never holds more
\* than 10 bodies of type ai; their number grows only in generateAIPlayers, by 3, and
\* only when fewer than 8 exist.
C38_AtMostTenAI ==
  /\ [](Len(existingAI(gameObjects)) <= 10)
  /\ [][ Len(existingAI(gameObjects')) > Len(existingAI(gameObjects))
         => /\ last'.op = "generateAIPlayers"
            /\ Len(existingAI(gameObjects)) < 8
            /\ Len(existingAI(gameObjects')) = Len(existingAI(gameObjects)) + 3 ]_vars

\* generateAIPlayers has run with 7 AI bodies in the list, which now holds 10
C38_Witness ==
  /\ last.op = "generateAIPlayers" /\ last.k = 3
  /\ Len(existingAI(gameObjects)) = 10
  /\ Len(gameObjects) = 11 /\ FindPlayer(gameObjects) = 1


\* ---------------------------------------------------------------- C39
\* floor(smaller.mass * 20) for the pair that handleCollisions is at, if the pair is
\* an absorption by the body with id "player"; 0 otherwise
AbsorbedByPlayer ==
  IF last'.op = "absorb" /\ gameObjects[last'.k].id = "player"
  THEN (gameObjects[last'.smaller].mass * 20) \div MassScale
  ELSE 0

\* C39: the score never decreases.  In the collision pass scoreIncrease grows by
\* floor(absorbed mass x 20) for each body the player absorbs and by nothing else;
\* the score changes only at the end of a tick, by scoreIncrease, and in
\* handleSpaceActivities, by the rewards of the activities discovered in that call.
C39_ScoreOnlyGrows ==
  [][ /\ score' >= score
      /\ CollideStepTaken => scoreIncrease' = scoreIncrease + AbsorbedByPlayer
      /\ score' # score
         => \/ pc = "finish" /\ score' = score + scoreIncrease
            \/ /\ pc = "activities" /\ Found # {}
               /\ score' = score + RewardSum(Found, Len(spaceActivities)) ]_vars

\* the player has discovered the energy crystal and, in a later tick, absorbed the
\* debris of mass 2: the score is 75 + 40
C39_Witness ==
  /\ last.op = "tickEnd" /\ scoreIncrease = 40
  /\ score = 75 + 40
  /\ spaceActivities[1].discovered

====
